---- MODULE Spec2Model ----
(***************************************************************************)
(* Model of the PhoenixGeoPy multi-file time-series readers:                *)
(* TSReaderBase (Reader/base.py) and NativeReader (Reader/native_reader.py).*)
(*                                                                          *)
(* A directory of same-extension files is an input chosen in Init; file     *)
(* names and file bytes are computed from the file identity, so the state   *)
(* holds only the reader object, the record of the last call and the        *)
(* number of calls made.  Stream positions are byte offsets.  Decoded       *)
(* samples are exact dyadic rationals m * 2^(-e) (every product the code    *)
(* forms is exactly representable in a double).                             *)
(***************************************************************************)
EXTENDS Integers, Sequences, FiniteSets, TLC

VARIABLES env, rd, last, ncalls

vars == <<env, rd, last, ncalls>>

-----------------------------------------------------------------------------
(* Bounds of the model *)

MaxSeq == 3          \* file-name sequence numbers range over 1..MaxSeq
MaxDirSize == 3      \* files in the directory where its content varies
MaxNumFiles == 2     \* num_files passed to the constructor: 1..MaxNumFiles
SmallFrames == 2     \* frames per file where the directory content varies
MaxFrames == 4       \* frames in the first file where the frame data varies
MaxGapPos == 2       \* position of the counter gap (0: no gap)
MaxN == 4            \* argument of read_frames / skip_frames: 1..MaxN
MaxCalls == 1        \* calls made on one reader after construction
MaxSerLen == 2       \* characters of a board-serial text before its padding
MaxRecords == 2      \* records in a segmented file
MaxSamples == 1      \* samples in a record
MaxFloats == 2       \* floats in a continuous file
MaxDataCalls == 2    \* calls made on one continuous reader
MaxLoopCalls == 2    \* calls followed iteration by iteration on one reader
MaxLoopN == 2        \* frames or samples asked for in such a call
MaxLoopFrames == 1   \* frames or floats of a file in such a call
FirstCounter == 100  \* footer counter of the first frame of the recording

(* Program constants *)

HeaderSize == 128    \* header_size default
FrameBytes == 64     \* bytes read per native frame
PayloadBytes == 60   \* offset of the footer inside a frame
ChunkSize == 4096    \* NativeReader._chunk_size

None == "None"  \* no exception / no return value

-----------------------------------------------------------------------------
(* Small arithmetic helpers *)

RECURSIVE Pow(_, _)
Pow(b, n) == IF n = 0 THEN 1 ELSE b * Pow(b, n - 1)

Min(a, b) == IF a < b THEN a ELSE b

\* byte i (0 = least significant) of a non-negative integer
LEByte(v, i) == (v \div Pow(256, i)) % 256

RECURSIVE SeqSum(_)
SeqSum(s) == IF s = <<>> THEN 0 ELSE Head(s) + SeqSum(Tail(s))

-----------------------------------------------------------------------------
(* File names:  <instrument>_<recording hex>_<channel>_<sequence hex>.bin   *)
(* A file is identified by [rec, seq]; its name is a tuple of character     *)
(* codes.  rec 1 is the recording of the first file, rec 0 another          *)
(* recording kept in the same directory.                                    *)

Underscore == 95
Dot == 46

HexDigitChar(d) == IF d < 10 THEN 48 + d ELSE 55 + d

Hex8(v) == [i \in 1..8 |-> HexDigitChar((v \div Pow(16, 8 - i)) % 16)]

RecordingId(rec) == 1619492348 + rec

FileName(f) ==
    <<49, 48, 49, 50, 56, Underscore>> \o Hex8(RecordingId(f.rec))
        \o <<Underscore, 48, Underscore>> \o Hex8(f.seq)
        \o <<Dot, 98, 105, 110>>

\* Path.stem: the name without its last suffix
Stem(name) ==
    LET dots == {i \in 1..Len(name) : name[i] = Dot}
        lastDot == CHOOSE i \in dots : \A j \in dots : j <= i
    IN  IF dots = {} THEN name ELSE SubSeq(name, 1, lastDot - 1)

\* str.split("_")
RECURSIVE Split(_, _)
Split(s, sep) ==
    LET hits == {i \in 1..Len(s) : s[i] = sep}
    IN  IF hits = {} THEN <<s>>
        ELSE LET k == CHOOSE i \in hits : \A j \in hits : i <= j
             IN  <<SubSeq(s, 1, k - 1)>> \o Split(SubSeq(s, k + 1, Len(s)), sep)

HexDigitVal(c) ==
    IF c >= 48 /\ c <= 57 THEN c - 48
    ELSE IF c >= 65 /\ c <= 70 THEN c - 55
    ELSE c - 87

\* int(text, 16)
RECURSIVE ParseHex(_)
ParseHex(s) ==
    IF s = <<>> THEN 0
    ELSE 16 * ParseHex(SubSeq(s, 1, Len(s) - 1)) + HexDigitVal(s[Len(s)])

\* the sequence number embedded in a file name
NameSeq(name) == ParseHex(Split(Stem(name), Underscore)[4])

\* lexicographic order of two names (code point order)
LexLess(a, b) ==
    \/ \E i \in 1..Min(Len(a), Len(b)) :
            /\ a[i] < b[i]
            /\ \A j \in 1..(i - 1) : a[j] = b[j]
    \/ /\ Len(a) < Len(b)
       /\ \A j \in 1..Len(a) : a[j] = b[j]

\* sorted(list(...)) of a set of files, by name
RECURSIVE SortByName(_)
SortByName(S) ==
    IF S = {} THEN <<>>
    ELSE LET m == CHOOSE x \in S :
                    \A y \in S \ {x} : LexLess(FileName(x), FileName(y))
         IN  <<m>> \o SortByName(S \ {m})

-----------------------------------------------------------------------------
(* The files.  env is the input of one run:                                 *)
(*   dir        the files of the directory (all share the extension)        *)
(*   listing    what sorted(glob(...)) returns for that directory; the      *)
(*              directory does not change during a run                      *)
(*   first      the file passed to the constructor                          *)
(*   num_files  constructor argument                                        *)
(*   frames     frames[s]: number of 64-byte frames of a file numbered s    *)
(*   gap        0, or the index (in the recording) of the first frame whose *)
(*              counter is one more than contiguous numbering gives         *)
(*   last_frame constructor argument                                        *)
(*   scale_to   constructor argument                                        *)
(*   gain_exp   total_circuitry_gain of the decoded header is 2^gain_exp    *)

File(r, s) == [rec |-> r, seq |-> s]

FileSize(f) == HeaderSize + FrameBytes * env.frames[f.seq]

\* index in the recording of frame j (from 0) of file f
FrameIndex(f, j) == SeqSum([s \in 1..(f.seq - 1) |-> env.frames[s]]) + j

\* the 28-bit counter the instrument wrote in the footer of that frame
Counter(f, j) ==
    LET i == FrameIndex(f, j)
    IN  FirstCounter + i + (IF env.gap > 0 /\ i >= env.gap THEN 1 ELSE 0)

\* A header as the instrument writes it (offsets of unpack_header), with the
\* field values of the repository's sample recording; recording_id (20..23)
\* and file_sequence (25..28) are filled in per file.
HeaderTemplate ==
    << 1, 3, 128, 0, 77, 84, 85, 45, 53, 67, 0, 0, 49, 48, 49, 50,
       56, 0, 0, 0, 0, 0, 0, 0, 0, 0, 0, 0, 0, 60, 0, 66,
       67, 77, 48, 49, 45, 73, 0, 48, 48, 48, 51, 49, 48, 54, 51, 31,
       0, 1, 0, 4, 3, 0, 0, 0, 10, 128, 0, 192, 93, 0, 3, 64,
       0, 0, 0, 0, 0, 0, 0, 171, 201, 158, 194, 50, 201, 46, 66, 3,
       112, 194, 66, 156, 71, 0, 0, 125, 174, 0, 0, 55, 0, 0, 0, 27,
       0, 0, 0, 0, 0, 0, 0, 0, 0, 187, 48, 98, 131, 3, 192, 66,
       123, 3, 64, 0, 0, 0, 0, 0, 0, 0, 0, 0, 0, 0, 0, 0 >>

HeaderByte(f, off) ==
    IF off >= 20 /\ off <= 23 THEN LEByte(RecordingId(f.rec), off - 20)
    ELSE IF off >= 25 /\ off <= 28 THEN LEByte(f.seq - 1, off - 25)
    ELSE HeaderTemplate[off + 1]

\* byte o (0..63) of frame j of file f: 20 samples of 3 bytes (even samples
\* positive, odd samples negative), then the footer
FrameByte(f, j, o) ==
    LET c == Counter(f, j)
        k == o \div 3
        i == o % 3
    IN  IF o >= PayloadBytes THEN LEByte(c, o - PayloadBytes)
        ELSE IF k % 2 = 0 THEN (IF i = 0 THEN 0 ELSE IF i = 1 THEN k ELSE c % 256)
        ELSE (IF i = 2 THEN (c + k) % 256 ELSE 255)

\* byte at offset off of file f
Byte(f, off) ==
    IF off < HeaderSize THEN HeaderByte(f, off)
    ELSE FrameByte(f, (off - HeaderSize) \div FrameBytes,
                      (off - HeaderSize) % FrameBytes)

\* bytes read from a file: bs = [file, off, len]
Bytes(f, off, len) == [file |-> f, off |-> off, len |-> len]

\* stream.read(n) at position pos of file f
StreamRead(f, pos, n) == Bytes(f, pos, Min(n, FileSize(f) - Min(pos, FileSize(f))))

\* bs[i] and bs[a:b] of python
At(bs, i) == Byte(bs.file, bs.off + i)

Slice(bs, a, b) ==
    LET lo == Min(a, bs.len)
        hi == Min(b, bs.len)
    IN  Bytes(bs.file, bs.off + lo, IF hi > lo THEN hi - lo ELSE 0)

-----------------------------------------------------------------------------
(* struct decoding *)

\* an unsigned 32-bit word, kept as two 16-bit halves
Word(hi, lo) == [hi |-> hi, lo |-> lo]

\* the host the code runs on (format "I" without a byte-order mark is native)
HostByteOrder == "little"

\* unpack("I", b) / unpack_from("I", buf, off) on four bytes b0..b3
UnpackI(b0, b1, b2, b3) ==
    IF HostByteOrder = "little" THEN Word(b3 * 256 + b2, b1 * 256 + b0)
    ELSE Word(b0 * 256 + b1, b2 * 256 + b3)

\* word & 0x0fffffff
footer_idx_samp(w) == (w.hi % 4096) * 65536 + w.lo

\* (word & 0x70000000) >> 28: the field itself
footer_sat_shift28(w) == (w.hi \div 4096) % 8

\* (word & 0x70000000) >> 24
footer_sat(w) == ((w.hi \div 4096) % 8) * 16

\* unpack("<i", b0 b1 b2 b3): signed little-endian 32-bit
UnpackLEi(b0, b1, b2, b3) ==
    (IF b3 >= 128 THEN b3 - 256 ELSE b3) * 16777216 + b2 * 65536 + b1 * 256 + b0

\* unpack(">i", b0 b1 b2 b3): signed big-endian 32-bit
UnpackBEi(b0, b1, b2, b3) ==
    (IF b0 >= 128 THEN b0 - 256 ELSE b0) * 16777216 + b1 * 65536 + b2 * 256 + b3

-----------------------------------------------------------------------------
(* Exact values of the floats the code computes: m * 2^(-e), m odd or 0 *)

RECURSIVE Dy(_, _)
Dy(m, e) ==
    IF m = 0 THEN [m |-> 0, e |-> 0]
    ELSE IF m % 2 = 0 THEN Dy(m \div 2, e - 1)
    ELSE [m |-> m, e |-> e]

DyMul(a, b) == Dy(a.m * b.m, a.e + b.e)

DataScaling == {"AD_in_ADunits", "AD_input_volts", "instrument_input_volts"}

\* ad_plus_minus_range (5.0) divided by total_circuitry_gain (2^gain_exp)
calculate_input_plusminus_range(gain_exp) == Dy(5, gain_exp)

calculate_data_scaling(scale_to, gain_exp) ==
    IF scale_to = "AD_in_ADunits" THEN Dy(256, 0)
    ELSE IF scale_to = "AD_input_volts" THEN Dy(5, 31)
    ELSE LET r == calculate_input_plusminus_range(gain_exp)
         IN  Dy(r.m, r.e + 31)

-----------------------------------------------------------------------------
(* The reader object.                                                       *)
(*   seq        _seq: <<>> for None (until first assigned), else <<n>>      *)
(*   last_seq   seq + num_files at construction                             *)
(*   stream     [file, pos, closed]: the file object referenced by          *)
(*              self.stream (never None once the constructor has run)       *)
(*   orphans    files with a handle that was opened, never closed, and is   *)
(*              no longer referenced by self.stream                         *)
(*   last_frame counter of the last frame seen                              *)
(*   hdr        the file whose header unpack_header decoded last            *)
(* An execution x = [rd, log, exc] threads the object, the events of the    *)
(* running call and the exception raised (None: none) through the code.     *)

Exec(r, log, exc) == [rd |-> r, log |-> log, exc |-> exc]

\* a local variable of a method: its value is computed once, where the code
\* assigns it, and handed to the statements that follow
Local(value, Rest(_)) == Rest(value)

Emit(x, e) == [x EXCEPT !.log = Append(@, e)]

Raise(x, e) == [x EXCEPT !.exc = e]

\* an execution together with the value the call returns
Ret(x, v) == [rd |-> x.rd, log |-> x.log, exc |-> x.exc, ret |-> v]

\* TSReaderBase.seq (getter)
seq(r) == IF r.seq = <<>> THEN NameSeq(FileName(env.first)) ELSE r.seq[1]

\* TSReaderBase.sequence_list
sequence_list == env.listing

\* TSReaderBase.file_size: the size of base_path
file_size == FileSize(env.first)

\* "if self.stream is not None: self.stream.close()" without the close
KeepStream(x) == x

\* "if self.stream is not None: self.stream.close()"
CloseStream(x) ==
    IF x.rd.stream.closed THEN x
    ELSE Emit([x EXCEPT !.rd.stream.closed = TRUE],
              [ev |-> "close", file |-> x.rd.stream.file])

\* the file self.stream holds open: <<>> or <<file>>
Held(r) == IF r.stream.closed THEN <<>> ELSE <<r.stream.file>>

\* TSReaderBase._open_file on a path that glob returned (it exists)
open_file(x, f) ==
    LET h == Held(x.rd)
        r == [x.rd EXCEPT !.stream = [file |-> f, pos |-> 0, closed |-> FALSE],
                          !.orphans = IF h = <<>> THEN @ ELSE @ \cup {h[1]}]
    IN  Ret(Emit([x EXCEPT !.rd = r], [ev |-> "open", file |-> f, held |-> h]),
            TRUE)

\* list[k] of python: negative k counts from the end
InRange(list, k) == k < Len(list) /\ k >= 0 - Len(list)

PyIndex(list, k) == IF k >= 0 THEN list[k + 1] ELSE list[Len(list) + k + 1]

\* TSReaderBase.open_file_seq(file_seq_num); file_seq_num is <<>> for None
open_file_seq(x, file_seq_num) ==
    Local(IF file_seq_num # <<>> THEN [CloseStream(x) EXCEPT !.rd.seq = file_seq_num]
          ELSE CloseStream(x), LAMBDA x2 :
    Local(seq(x2.rd) - 1, LAMBDA k :
        IF ~InRange(sequence_list, k) THEN Ret(Raise(x2, "IndexError"), None)
        ELSE open_file(x2, PyIndex(sequence_list, k))))

\* TSReaderBase.open_next()
open_next(x) ==
    Local(CloseStream(x), LAMBDA x1 :
    Local([x1 EXCEPT !.rd.seq = <<seq(x1.rd) + 1>>], LAMBDA x2 :
    Local(open_file_seq(x2, <<seq(x2.rd)>>), LAMBDA x3 :
        IF x3.exc # None THEN x3
        ELSE IF seq(x3.rd) < x3.rd.last_seq
             THEN open_file(x3, PyIndex(sequence_list, seq(x3.rd) - 1))
        ELSE Ret(x3, FALSE))))

\* TSReaderBase.close()
close(x) == Ret(CloseStream(x), None)

\* Header.unpack_header(stream) with header_size 128: seek(0), read the header
unpack_header(x) ==
    IF x.rd.stream.closed THEN Raise(x, "ValueError")
    ELSE [x EXCEPT !.rd.stream.pos = Min(HeaderSize, FileSize(x.rd.stream.file)),
                   !.rd.hdr = x.rd.stream.file]

\* frame_size_bytes of the decoded header: frame_size (offset 63) & 0xffffff
frame_size_bytes(r) ==
    Local(UnpackI(Byte(r.hdr, 63), Byte(r.hdr, 64), Byte(r.hdr, 65), Byte(r.hdr, 66)),
          LAMBDA w : (w.hi % 256) * 65536 + w.lo)

\* NativeReader.npts_per_frame
npts_per_frame(r) == (frame_size_bytes(r) - 4) \div 3

-----------------------------------------------------------------------------
(* NativeReader *)

Strip(x) == Exec(x.rd, x.log, x.exc)

Advance(x, n) == [x EXCEPT !.rd.stream.pos = @ + n]

\* the 20 scaled samples of one frame (read_frames, "for ptrSamp in range(0, 60, 3)")
FrameSamples(dataFrame, scale_factor) ==
    [k \in 1..(PayloadBytes \div 3) |->
        DyMul(Dy(UnpackBEi(At(dataFrame, 3 * (k - 1)), At(dataFrame, 3 * (k - 1) + 1),
                           At(dataFrame, 3 * (k - 1) + 2), 0), 0),
              scale_factor)]

\* DecodeFrame without "self.last_frame = frameCount"
DecodeFrameStale(x, dataFrame, buf) ==
    IF dataFrame.len < FrameBytes THEN Ret(Raise(x, "struct.error"), None)
    ELSE Local(footer_idx_samp(UnpackI(At(dataFrame, 60), At(dataFrame, 61),
                                       At(dataFrame, 62), At(dataFrame, 63))),
               LAMBDA frameCount :
         Local(frameCount - x.rd.last_frame, LAMBDA difCount :
         Local(IF difCount # 1
               THEN Emit(x, [ev |-> "missing", at |-> frameCount, dif |-> difCount])
               ELSE x, LAMBDA x1 :
             Ret(Emit(x1, [ev |-> "frame", file |-> dataFrame.file,
                           off |-> dataFrame.off]),
                 buf \o FrameSamples(dataFrame, x.rd.scale_factor)))))

\* The body of the read_frames loop once dataFrame is non-empty: footer,
\* missing-frame check, last_frame, samples.
DecodeFrame(x, dataFrame, buf) ==
    IF dataFrame.len < FrameBytes THEN Ret(Raise(x, "struct.error"), None)
    ELSE Local(footer_idx_samp(UnpackI(At(dataFrame, 60), At(dataFrame, 61),
                                       At(dataFrame, 62), At(dataFrame, 63))),
               LAMBDA frameCount :
         Local(frameCount - x.rd.last_frame, LAMBDA difCount :
         Local(IF difCount # 1
               THEN Emit(x, [ev |-> "missing", at |-> frameCount, dif |-> difCount])
               ELSE x, LAMBDA x1 :
             Ret(Emit([x1 EXCEPT !.rd.last_frame = frameCount],
                      [ev |-> "frame", file |-> dataFrame.file, off |-> dataFrame.off]),
                 buf \o FrameSamples(dataFrame, x.rd.scale_factor)))))

\* NativeReader.read_frames: the while loop, left = num_frames - frames_in_buf
RECURSIVE read_frames_loop(_, _, _)
read_frames_loop(x, left, buf) ==
    IF left = 0 THEN Ret(x, buf)
    ELSE IF x.rd.stream.closed THEN Ret(Raise(x, "ValueError"), None)
    ELSE Local(StreamRead(x.rd.stream.file, x.rd.stream.pos, FrameBytes),
               LAMBDA dataFrame :
         IF dataFrame.len > 0
         THEN Local(DecodeFrame(Advance(x, dataFrame.len), dataFrame, buf), LAMBDA d :
                  IF d.exc # None THEN d
                  ELSE read_frames_loop(Strip(d), left - 1, d.ret))
         ELSE Local(open_next(x), LAMBDA n :
                  IF n.exc # None THEN Ret(n, None)
                  ELSE IF ~n.ret THEN Ret(n, <<>>)
                  ELSE Local(StreamRead(n.rd.stream.file, n.rd.stream.pos, FrameBytes),
                             LAMBDA again :
                       IF again.len = 0 THEN Ret(n, <<>>)
                       ELSE Local(DecodeFrame(Advance(Strip(n), again.len), again, buf),
                                  LAMBDA d :
                                IF d.exc # None THEN d
                                ELSE read_frames_loop(Strip(d), left - 1, d.ret)))))

read_frames(x, num_frames) == read_frames_loop(x, num_frames, <<>>)

\* NativeReader.skip_frames: the while loop
RECURSIVE skip_frames_loop(_, _)
skip_frames_loop(x, bytes_to_skip) ==
    IF bytes_to_skip <= 0 THEN Ret(x, TRUE)
    ELSE IF x.rd.stream.closed THEN Ret(Raise(x, "ValueError"), None)
    ELSE Local(StreamRead(x.rd.stream.file, x.rd.stream.pos, bytes_to_skip), LAMBDA foo :
         IF foo.len = 0
         THEN Local(open_next(x), LAMBDA more_data :
                  IF more_data.exc # None THEN Ret(more_data, None)
                  ELSE IF ~more_data.ret THEN Ret(more_data, FALSE)
                  ELSE skip_frames_loop(Strip(more_data), bytes_to_skip))
         ELSE skip_frames_loop(
                  Emit(Advance(x, foo.len),
                       [ev |-> "skip", file |-> foo.file, off |-> foo.off,
                        len |-> foo.len]),
                  bytes_to_skip - foo.len))

skip_frames(x, num_frames) ==
    Local(skip_frames_loop(x, num_frames * FrameBytes), LAMBDA r :
        IF r.exc # None THEN r
        ELSE IF ~r.ret THEN r
        ELSE Ret([Strip(r) EXCEPT !.rd.last_frame = @ + num_frames], TRUE))

-----------------------------------------------------------------------------
(* NativeReader.read and read_sequence *)

\* NativeReader._get_number_of_frames
get_number_of_frames(r) == (file_size - HeaderSize) \div frame_size_bytes(r)

\* NativeReader._get_number_of_chunks
get_number_of_chunks == (file_size - HeaderSize) \div ChunkSize

\* data[lo:hi] = vals (0-based, hi exclusive)
AssignSlice(data, lo, vals) ==
    [i \in DOMAIN data |->
        IF i > lo /\ i <= lo + Len(vals) THEN vals[i - lo] ELSE data[i]]

\* one pass of the inner loop of read(): frame ii of chunk count.
\* s = [data, footer, exc]
ReadChunkFrame(s, byte_string, count, ii, chunk_frames, npts) ==
    Local(Slice(byte_string, ii * 64, (ii + 1) * 60 + 4 * ii), LAMBDA data_frame :
    Local(Slice(byte_string, (ii + 1) * 60, (ii + 1) * 60 + 4), LAMBDA footer_frame :
        IF \/ \E jj \in 0..(npts - 1) : Slice(data_frame, jj * 3, (jj + 1) * 3).len < 3
           \/ footer_frame.len < 4
        THEN [s EXCEPT !.exc = "struct.error"]
        ELSE [s EXCEPT
                !.data = AssignSlice(@, (count * chunk_frames + ii) * npts,
                    [k \in 1..npts |->
                        Dy(UnpackBEi(At(data_frame, 3 * (k - 1)),
                                     At(data_frame, 3 * (k - 1) + 1),
                                     At(data_frame, 3 * (k - 1) + 2), 0), 0)]),
                !.footer[ii + 1] = UnpackI(At(footer_frame, 0), At(footer_frame, 1),
                                           At(footer_frame, 2), At(footer_frame, 3))]))

\* the inner loop: zip(data_slices, footer_slices, range(n_frames))
RECURSIVE ReadChunkFrames(_, _, _, _, _, _, _)
ReadChunkFrames(s, byte_string, count, ii, stop, chunk_frames, npts) ==
    IF ii >= stop \/ s.exc # None THEN s
    ELSE ReadChunkFrames(ReadChunkFrame(s, byte_string, count, ii, chunk_frames, npts),
                         byte_string, count, ii + 1, stop, chunk_frames, npts)

\* the outer loop: for count in range(self._get_number_of_chunks())
RECURSIVE ReadChunks(_, _, _, _, _, _)
ReadChunks(x, s, count, n_frames, chunk_frames, npts) ==
    IF count >= get_number_of_chunks \/ s.exc # None THEN [x |-> x, s |-> s]
    ELSE Local(StreamRead(x.rd.stream.file, x.rd.stream.pos, ChunkSize),
               LAMBDA byte_string :
             ReadChunks(Advance(x, byte_string.len),
                        ReadChunkFrames(s, byte_string, count, 0,
                                        Min(chunk_frames, n_frames), chunk_frames, npts),
                        count + 1, n_frames, chunk_frames, npts))

\* NativeReader.read(): returns <<data, footer>>
read(x) ==
    Local(get_number_of_frames(x.rd), LAMBDA n_frames :
    Local(npts_per_frame(x.rd), LAMBDA npts :
        IF x.rd.stream.closed THEN Ret(Raise(x, "ValueError"), None)
        ELSE Local(ReadChunks([x EXCEPT !.rd.stream.pos = HeaderSize],
                              [data |-> [i \in 1..(n_frames * npts) |-> Dy(0, 0)],
                               footer |-> [i \in 1..n_frames |-> Word(0, 0)],
                               exc |-> None],
                              0, n_frames, ChunkSize \div frame_size_bytes(x.rd), npts),
                   LAMBDA r :
                 IF r.s.exc # None THEN Ret(Raise(r.x, r.s.exc), None)
                 ELSE Ret(r.x, <<r.s.data, r.s.footer>>))))

\* np.append(data, (d, f)): a (2, L) array is flattened; d and f of different
\* lengths are a ragged sequence, which numpy either refuses (ValueError) or
\* turns into an array of two objects, depending on its version.
NumpyRagged == {"ValueError", "objects"}

NpAppend(data, pair, ragged) ==
    IF Len(pair[1]) = Len(pair[2]) THEN [exc |-> None, val |-> data \o pair[1] \o pair[2]]
    ELSE IF ragged = "ValueError" THEN [exc |-> "ValueError", val |-> data]
    ELSE [exc |-> None, val |-> data \o <<pair[1], pair[2]>>]

\* NativeReader.read_sequence(): the loop over sequence_list[start:end]
RECURSIVE read_sequence_loop(_, _, _, _)
read_sequence_loop(x, files, data, ragged) ==
    IF files = <<>> THEN Ret(x, data)
    ELSE Local(unpack_header(Strip(open_file(x, Head(files)))), LAMBDA x1 :
         IF x1.exc # None THEN Ret(x1, None)
         ELSE Local(read(x1), LAMBDA r :
              IF r.exc # None THEN r
              ELSE Local(NpAppend(data, r.ret, ragged), LAMBDA a :
                   IF a.exc # None THEN Ret(Raise(Strip(r), a.exc), None)
                   ELSE read_sequence_loop(Strip(r), Tail(files), a.val, ragged))))

read_sequence(x, ragged) == read_sequence_loop(x, sequence_list, <<>>, ragged)

-----------------------------------------------------------------------------
(* Inputs *)

RecordingFiles == {File(1, s) : s \in 1..MaxSeq}

AllFiles == RecordingFiles \cup {File(0, 1)}

Uniform(n) == [s \in 1..MaxSeq |-> n]

\* last_frame as passed by a caller who knows the recording: one less than
\* the counter of the first frame of the first file
LastFrameArg(frames, first) ==
    FirstCounter + SeqSum([s \in 1..(first.seq - 1) |-> frames[s]]) - 1

MkEnv(dir, first, num_files, frames, gap, last_frame, scale_to, gain_exp) ==
    [dir |-> dir, listing |-> SortByName(dir), first |-> first,
     num_files |-> num_files, frames |-> frames,
     gap |-> gap, last_frame |-> last_frame, scale_to |-> scale_to,
     gain_exp |-> gain_exp]

\* any directory content, files of equal length, contiguous counters,
\* default scaling
DirectoryEnvs ==
    {MkEnv(others \cup {first}, first, k, Uniform(SmallFrames), 0,
           LastFrameArg(Uniform(SmallFrames), first), "AD_input_volts", 2) :
        <<first, others, k>> \in
            {t \in RecordingFiles \X (SUBSET AllFiles) \X (1..MaxNumFiles) :
                Cardinality(t[2] \cup {t[1]}) <= MaxDirSize}}

\* a recording of two files numbered 1 and 2 read as one sequence, with any
\* frame count in the first file, an optional counter gap, and last_frame
\* either left at its default 0 or set from the first counter
FrameEnvs ==
    {MkEnv({File(1, 1), File(1, 2)}, File(1, 1), 2,
           [s \in 1..MaxSeq |-> IF s = 1 THEN a ELSE SmallFrames], g, lf,
           "AD_input_volts", 2) :
        <<a, g, lf>> \in (1..MaxFrames) \X (0..MaxGapPos) \X {0, FirstCounter - 1}}

\* one file, every scaling mode and a scale_to that is none of them
ScalingEnvs ==
    {MkEnv({File(1, 1)}, File(1, 1), 1, Uniform(SmallFrames), 0, FirstCounter - 1,
           sc, ge) :
        <<sc, ge>> \in (DataScaling \cup {"unknown"}) \X {-1, 2}}

Envs == DirectoryEnvs \cup FrameEnvs \cup ScalingEnvs

-----------------------------------------------------------------------------
(* Construction and the calls *)

\* TSReaderBase.__init__ followed by the rest of NativeReader.__init__
Construct(e) ==
    Local(unpack_header(Strip(open_file(
              Exec([seq |-> <<>>,
                    last_seq |-> NameSeq(FileName(e.first)) + e.num_files,
                    stream |-> [file |-> e.first, pos |-> 0, closed |-> TRUE],
                    orphans |-> {},
                    last_frame |-> e.last_frame,
                    hdr |-> e.first,
                    scale_factor |-> Dy(0, 0)],  \* assigned last, below
                   <<>>, None),
              e.first))), LAMBDA x :
        IF x.exc # None THEN x
        ELSE IF e.scale_to \notin DataScaling THEN Raise(x, "LookupError")
        ELSE [x EXCEPT !.rd.scale_factor =
                            calculate_data_scaling(e.scale_to, e.gain_exp)])

Call(op, arg, pre, r) ==
    [op |-> op, arg |-> arg, pre |-> pre, ret |-> r.ret, exc |-> r.exc, log |-> r.log]

Start == Exec(rd, <<>>, None)

Init ==
    /\ env \in Envs
    /\ \E c \in {Construct(env)} :
         /\ rd = c.rd
         /\ last = [op |-> "init", arg |-> <<>>, pre |-> c.rd, ret |-> None,
                    exc |-> c.exc, log |-> c.log]
    /\ ncalls = 0

\* a call on the reader, which exists only if its constructor returned
Do(op, arg, r) ==
    /\ ncalls < MaxCalls
    /\ ~(last.op = "init" /\ last.exc # None)
    /\ rd' = r.rd
    /\ last' = Call(op, arg, rd, r)
    /\ ncalls' = ncalls + 1
    /\ UNCHANGED env

ReadFrames == \E n \in 1..MaxN : Do("read_frames", n, read_frames(Start, n))

SkipFrames == \E n \in 1..MaxN : Do("skip_frames", n, skip_frames(Start, n))

OpenNext == Do("open_next", <<>>, open_next(Start))

OpenFileSeq ==
    \E a \in {<<>>} \cup {<<i>> : i \in 0..(MaxSeq + 1)} :
        Do("open_file_seq", a, open_file_seq(Start, a))

Read == Do("read", <<>>, read(Start))

ReadSequence ==
    \E ragged \in NumpyRagged : Do("read_sequence", ragged, read_sequence(Start, ragged))

Close == Do("close", <<>>, close(Start))

Next ==
    \/ ReadFrames
    \/ SkipFrames
    \/ OpenNext
    \/ OpenFileSeq
    \/ Read
    \/ ReadSequence
    \/ Close

Spec == Init /\ [][Next]_vars

-----------------------------------------------------------------------------
(* Header.unpack_header (Reader/TimeSeries.py, class Header) on the bytes   *)
(* stream.read(header_size) returned.  header is the tuple of those bytes;  *)
(* texts are tuples of character codes; a gain is the rational <<n, d>> the *)
(* code writes (0.5 is <<1, 2>>, 523.0 / 5223.0 is <<523, 5223>>), <<>> is  *)
(* an attribute still None.  Attributes are assigned group by group; an     *)
(* exception leaves the groups assigned before it.                          *)

RECURSIVE GCD(_, _)
GCD(a, b) == IF b = 0 THEN a ELSE GCD(b, a % b)

Rat(n, d) == <<n \div GCD(n, d), d \div GCD(n, d)>>

RatMul(a, b) == Rat(a[1] * b[1], a[2] * b[2])

\* a & b on non-negative integers
RECURSIVE BitAnd(_, _)
BitAnd(a, b) ==
    IF a = 0 \/ b = 0 THEN 0
    ELSE (a % 2) * (b % 2) + 2 * BitAnd(a \div 2, b \div 2)

\* s[a:b] of python for 0 <= a, b
PySlice(s, a, b) == SubSeq(s, a + 1, Min(b, Len(s)))

\* str.strip(chars)
RECURSIVE LStrip(_, _)
LStrip(s, chars) ==
    IF s # <<>> /\ Head(s) \in chars THEN LStrip(Tail(s), chars) ELSE s

RECURSIVE RStrip(_, _)
RStrip(s, chars) ==
    IF s # <<>> /\ s[Len(s)] \in chars THEN RStrip(SubSeq(s, 1, Len(s) - 1), chars)
    ELSE s

PyStrip(s, chars) == RStrip(LStrip(s, chars), chars)

\* string.hexdigits: 0-9, a-f, A-F
HexDigits == (48..57) \cup (97..102) \cup (65..70)

\* bytes.decode("utf-8") fails on a byte that no UTF-8 text contains
\* (0xF8..0xFF); ASCII bytes decode to themselves.  The headers checked hold
\* no other byte in their text fields.
Utf8Fails(bs) == \E i \in 1..Len(bs) : bs[i] >= 248

\* unpack_from(fmt, header, off) needs size bytes at off
Fits(header, off, size) == off + size <= Len(header)

\* header[off : off + n]
Field(header, off, n) == SubSeq(header, off + 1, off + n)

BCM01 == <<66, 67, 77, 48, 49>>
BCM03 == <<66, 67, 77, 48, 51>>
BCM06 == <<66, 67, 77, 48, 54>>
BCM05A == <<66, 67, 77, 48, 53, 45, 65>>

\* Header.__init__: the attributes before a header is decoded
NewHeader ==
    [file_sequence |-> <<>>, ch_hwv |-> <<>>, board_model_main |-> <<>>,
     board_model_revision |-> <<>>, ch_ser |-> <<>>, conf_fp |-> <<>>,
     channel_type |-> "?", detected_channel_type |-> "?", lpf_Hz |-> <<>>,
     channel_main_gain |-> <<>>, intrinsic_circuitry_gain |-> <<>>,
     total_circuitry_gain |-> <<>>, total_selectable_gain |-> <<>>,
     preamp_gain |-> Rat(1, 1), attenuator_gain |-> Rat(1, 1),
     frame_size |-> <<>>, saturated_frames |-> <<>>,
     missing_frames |-> <<>>]

\* a header object with the exception raised while decoding into it
Hdr(h, exc) == [h |-> h, exc |-> exc]

\* file_type .. board_model_revision (offsets 0..38)
UnpackIdentification(h, header) ==
    IF ~Fits(header, 4, 8) THEN Hdr(h, "struct.error")
    ELSE IF Utf8Fails(Field(header, 4, 8)) THEN Hdr(h, "UnicodeDecodeError")
    ELSE IF ~Fits(header, 25, 4) THEN Hdr(h, "struct.error")
    ELSE IF ~Fits(header, 31, 8)
         THEN Hdr([h EXCEPT !.file_sequence = UnpackI(header[26], header[27],
                                                       header[28], header[29])],
                  "struct.error")
    ELSE IF Utf8Fails(Field(header, 31, 8))
         THEN Hdr([h EXCEPT !.file_sequence = UnpackI(header[26], header[27],
                                                       header[28], header[29])],
                  "UnicodeDecodeError")
    ELSE Local(PyStrip(Field(header, 31, 8), {32}), LAMBDA ch_hwv :
             Hdr([h EXCEPT !.file_sequence = UnpackI(header[26], header[27],
                                                      header[28], header[29]),
                           !.ch_hwv = ch_hwv,
                           !.board_model_main = PySlice(ch_hwv, 0, 5),
                           !.board_model_revision = PySlice(ch_hwv, 6, 1)],
                 None))

\* ch_ser (offset 39): text stripped of NULs, then int(text, 16) if every
\* character is a hexadecimal digit, else 0
UnpackBoardSerial(h, header) ==
    IF ~Fits(header, 39, 8) THEN Hdr(h, "struct.error")
    ELSE IF Utf8Fails(Field(header, 39, 8)) THEN Hdr(h, "UnicodeDecodeError")
    ELSE Local(PyStrip(Field(header, 39, 8), {0}), LAMBDA ch_ser :
             IF \A i \in 1..Len(ch_ser) : ch_ser[i] \in HexDigits
             THEN IF ch_ser = <<>> THEN Hdr([h EXCEPT !.ch_ser = ch_ser], "ValueError")
                  ELSE Hdr([h EXCEPT !.ch_ser = ParseHex(ch_ser)], None)
             ELSE Hdr([h EXCEPT !.ch_ser = 0], None))

\* ch_fir (offset 47) and conf_fp (offset 51)
UnpackFingerprint(h, header) ==
    IF ~Fits(header, 47, 4) \/ ~Fits(header, 51, 8) THEN Hdr(h, "struct.error")
    ELSE Hdr([h EXCEPT !.conf_fp = Field(header, 51, 8)], None)

\* config_fp[i]
Fp(h, i) == h.conf_fp[i + 1]

\* Header.__populate_channel_type
populate_channel_type(h) ==
    [h EXCEPT !.channel_type = IF BitAnd(Fp(h, 1), 8) = 8 THEN "E" ELSE "H",
              !.detected_channel_type = IF BitAnd(Fp(h, 1), 32) = 32 THEN "E" ELSE "H"]

\* Header.__popuate_peamp_gain
populate_preamp_gain(h) ==
    [h EXCEPT !.preamp_gain =
        IF h.channel_type = "E" /\ BitAnd(Fp(h, 0), 16) # 0
        THEN IF h.board_model_main = BCM01 \/ h.board_model_main = BCM03
             THEN IF h.board_model_revision = <<76>> THEN Rat(8, 1) ELSE Rat(4, 1)
             ELSE IF PySlice(h.ch_hwv, 0, 7) = BCM05A THEN Rat(4, 1) ELSE Rat(8, 1)
        ELSE Rat(1, 1)]

\* Header.__populate_lpf
populate_lpf(h) ==
    Local(h.board_model_main = BCM03 \/ h.board_model_main = BCM06, LAMBDA wide :
        [h EXCEPT !.lpf_Hz =
            IF BitAnd(Fp(h, 0), 128) = 128
            THEN IF BitAnd(Fp(h, 0), 3) = 3 THEN <<10>>
                 ELSE IF BitAnd(Fp(h, 0), 3) = 2 THEN (IF wide THEN <<1000>> ELSE <<100>>)
                 ELSE IF BitAnd(Fp(h, 0), 3) = 1 THEN (IF wide THEN <<10000>> ELSE <<1000>>)
                 ELSE @
            ELSE IF wide THEN <<17800>> ELSE <<10000>>])

\* Header.__populate_main_gain
populate_main_gain(h) ==
    Local(~(\/ h.board_model_main = BCM01
            \/ h.board_model_main = BCM03
            \/ PySlice(h.ch_hwv, 0, 7) = BCM05A), LAMBDA new_gains :
        [h EXCEPT !.channel_main_gain =
            IF BitAnd(Fp(h, 0), 12) = 0 THEN Rat(1, 1)
            ELSE IF BitAnd(Fp(h, 0), 12) = 4 THEN Rat(4, 1)
            ELSE IF BitAnd(Fp(h, 0), 12) = 8
                 THEN (IF new_gains THEN Rat(6, 1) ELSE Rat(16, 1))
            ELSE (IF new_gains THEN Rat(8, 1) ELSE Rat(32, 1))])

\* Header.__handle_sensor_range
handle_sensor_range(h) ==
    [h EXCEPT !.intrinsic_circuitry_gain =
        IF h.channel_type = "H" /\ BitAnd(Fp(h, 1), 1) = 1 THEN Rat(1, 1)
        ELSE Rat(1, 2)]

\* Header.__populate_attenuator_gain: with the attenuator on and an E
\* channel the code reads self.cs_hwv, an attribute no code sets
populate_attenuator_gain(h) ==
    IF BitAnd(Fp(h, 4), 1) # 0 /\ h.channel_type = "E"
    THEN Hdr([h EXCEPT !.attenuator_gain = Rat(1, 1)], "AttributeError")
    ELSE Hdr([h EXCEPT !.attenuator_gain = Rat(1, 1)], None)

\* the calls of unpack_header from "Channel type" to "Board-wide gains"
PopulateGains(h) ==
    Local(populate_attenuator_gain(
              handle_sensor_range(populate_main_gain(populate_lpf(
                  populate_preamp_gain(populate_channel_type(h)))))), LAMBDA a :
        IF a.exc # None THEN a
        ELSE Local(RatMul(RatMul(a.h.channel_main_gain, a.h.preamp_gain),
                          a.h.attenuator_gain), LAMBDA selectable :
             Hdr([a.h EXCEPT !.total_selectable_gain = selectable,
                             !.total_circuitry_gain =
                                 RatMul(selectable, a.h.intrinsic_circuitry_gain)],
                 None)))

\* saturated_frames with bit 0x80 set: the value masked to 7 bits, unshifted
unpack_saturated_unshifted(raw) == IF BitAnd(raw, 128) = 128 THEN BitAnd(raw, 127) ELSE raw

\* saturated_frames with bit 0x80 set: the value shifted by 3 bits only
unpack_saturated_shift3(raw) ==
    IF BitAnd(raw, 128) = 128 THEN BitAnd(raw, 127) * 8 ELSE raw

\* the value of the field saturated_frames for the 16-bit word raw read at
\* offset 101: "if raw & 0x80 == 0x80: raw &= 0x7F; raw <<= 4"
unpack_saturated(raw) == IF BitAnd(raw, 128) = 128 THEN BitAnd(raw, 127) * 16 ELSE raw

\* unpack_from("H", header, off)
UnpackH(header, off) ==
    IF HostByteOrder = "little" THEN header[off + 1] + 256 * header[off + 2]
    ELSE 256 * header[off + 1] + header[off + 2]

\* sample_rate_base (offset 59) .. max_signal (offset 111, 4 bytes)
UnpackAcquisition(h, header) ==
    IF ~Fits(header, 63, 4) THEN Hdr(h, "struct.error")
    ELSE Local([h EXCEPT !.frame_size = UnpackI(header[64], header[65],
                                                 header[66], header[67])], LAMBDA h1 :
        IF ~Fits(header, 101, 2) THEN Hdr(h1, "struct.error")
        ELSE Local([h1 EXCEPT !.saturated_frames =
                                  unpack_saturated(UnpackH(header, 101))], LAMBDA h2 :
            IF ~Fits(header, 103, 2) THEN Hdr(h2, "struct.error")
            ELSE Hdr([h2 EXCEPT !.missing_frames = UnpackH(header, 103)],
                     IF Fits(header, 111, 4) THEN None ELSE "struct.error")))

\* Header.unpack_header with header_size 128, on the bytes read
UnpackHeaderBytes(h, header) ==
    Local(UnpackIdentification(h, header), LAMBDA a :
    IF a.exc # None THEN a ELSE
    Local(UnpackBoardSerial(a.h, header), LAMBDA b :
    IF b.exc # None THEN b ELSE
    Local(UnpackFingerprint(b.h, header), LAMBDA c :
    IF c.exc # None THEN c ELSE
    Local(PopulateGains(c.h), LAMBDA d :
    IF d.exc # None THEN d ELSE UnpackAcquisition(d.h, header)))))

-----------------------------------------------------------------------------
(* The decoders on their own: a header buffer, the three bytes of a sample  *)
(* or the four bytes of a footer is the input (env), drawn in DecodeInit;   *)
(* one call decodes it.                                                     *)

\* the text and fingerprint fields of the sample recording's header
TemplateHwv == Field(HeaderTemplate, 31, 8)
TemplateSer == Field(HeaderTemplate, 39, 8)
TemplateFp == Field(HeaderTemplate, 51, 8)

\* the first len bytes of a header with the given ch_hwv, ch_ser, conf_fp
HeaderBuffer(e) ==
    SubSeq([i \in 1..HeaderSize |->
               IF i >= 32 /\ i <= 39 THEN e.ch_hwv[i - 31]
               ELSE IF i >= 40 /\ i <= 47 THEN e.ch_ser[i - 39]
               ELSE IF i >= 52 /\ i <= 59 THEN e.conf_fp[i - 51]
               ELSE HeaderTemplate[i]],
           1, e.len)

HeaderInput(len, hwv, ser, fp) ==
    [kind |-> "header", len |-> len, ch_hwv |-> hwv, ch_ser |-> ser, conf_fp |-> fp]

\* characters of the board-serial fields tried: 0 9 A f G - space NUL and 0xFF
SerAlphabet == {48, 57, 65, 102, 71, 45, 32, 0, 255}

\* text padded on the right to n bytes
PadTo(text, pad, n) == [i \in 1..n |-> IF i <= Len(text) THEN text[i] ELSE pad]

\* board-serial fields: every text of up to MaxSerLen characters padded with
\* NULs or with spaces, "0A1F2B3C" and "--------"
SerFields ==
    {PadTo(t, pad, 8) :
        t \in UNION {[1..k -> SerAlphabet] : k \in 0..MaxSerLen}, pad \in {0, 32}}
    \cup {<<48, 65, 49, 70, 50, 66, 51, 67>>, PadTo(<<>>, 45, 8)}

\* board models: BCM01-I, BCM01-L, BCM03-A, BCM05-A, BCM05-B, BCM06-A (NUL padded)
HwvFields ==
    {PadTo(BCM01 \o <<45, 73>>, 0, 8), PadTo(BCM01 \o <<45, 76>>, 0, 8),
     PadTo(BCM03 \o <<45, 65>>, 0, 8),
     PadTo(BCM05A, 0, 8), PadTo(<<66, 67, 77, 48, 53, 45, 66>>, 0, 8),
     PadTo(BCM06 \o <<45, 65>>, 0, 8)}

\* fingerprints: gain, preamp and LPF bits in byte 0, channel type and
\* sensor range in byte 1, attenuator in byte 4
FpFields ==
    {<<f0, f1, 0, 0, f4, 10, 128, 0>> : f0 \in {4, 24, 128, 129, 130, 131, 142}, f1 \in {3, 8, 40},
                                        f4 \in {0, 1, 2}}

HeaderInputs ==
    {HeaderInput(HeaderSize, TemplateHwv, ser, TemplateFp) : ser \in SerFields}
    \cup {HeaderInput(HeaderSize, hwv, TemplateSer, fp) :
             hwv \in HwvFields, fp \in FpFields}
    \cup {HeaderInput(len, TemplateHwv, TemplateSer, TemplateFp) :
             len \in 0..HeaderSize}

\* byte values around the sign and carry boundaries
EdgeBytes == {0, 1, 127, 128, 255}

SampleInputs == {[kind |-> "sample", bytes |-> bs] : bs \in [1..3 -> EdgeBytes]}

\* footers as stored (least significant byte first); the last byte holds
\* bits 24..31
FooterInputs ==
    {[kind |-> "footer", bytes |-> <<b0, b1, b2, b3>>] :
        b0 \in {0, 1, 255}, b1 \in {0, 255}, b2 \in {0, 255},
        b3 \in {0, 15, 16, 112, 127, 128, 240, 255}}

\* 16-bit words of the field saturated_frames: every low byte, high bytes
\* around the boundaries and the one of the sample recording (0x3C17)
SaturatedInputs ==
    {[kind |-> "saturated", raw |-> lo + 256 * hi] : lo \in 0..255, hi \in EdgeBytes \cup {60}}

\* value = unpack(">i", dataFrame[ptrSamp : ptrSamp + 3] + b"\x00")[0]
unpack_sample(bs) == UnpackBEi(bs[1], bs[2], bs[3], 0)

\* frameCount and satCount of read_frames for the footer bytes
unpack_footer(bs) ==
    Local(UnpackI(bs[1], bs[2], bs[3], bs[4]), LAMBDA dataFooter :
        [frameCount |-> footer_idx_samp(dataFooter), satCount |-> footer_sat(dataFooter)])

DecodeInit ==
    /\ env \in HeaderInputs \cup SampleInputs \cup FooterInputs \cup SaturatedInputs
    /\ rd = NewHeader
    /\ last = [op |-> "init", arg |-> <<>>, pre |-> NewHeader, ret |-> None,
               exc |-> None, log |-> <<>>]
    /\ ncalls = 0

UnpackHeader ==
    /\ env.kind = "header"
    /\ \E r \in {UnpackHeaderBytes(rd, HeaderBuffer(env))} :
         Do("unpack_header", <<>>, [rd |-> r.h, ret |-> None, exc |-> r.exc, log |-> <<>>])

UnpackSample ==
    /\ env.kind = "sample"
    /\ Do("unpack_sample", <<>>,
          [rd |-> rd, ret |-> unpack_sample(env.bytes), exc |-> None, log |-> <<>>])

UnpackFooter ==
    /\ env.kind = "footer"
    /\ Do("unpack_footer", <<>>,
          [rd |-> rd, ret |-> unpack_footer(env.bytes), exc |-> None, log |-> <<>>])

UnpackSaturated ==
    /\ env.kind = "saturated"
    /\ Do("unpack_saturated", <<>>,
          [rd |-> rd, ret |-> unpack_saturated(env.raw), exc |-> None, log |-> <<>>])

DecodeNext ==
    \/ UnpackHeader
    \/ UnpackSample
    \/ UnpackFooter
    \/ UnpackSaturated

DecodeSpec == DecodeInit /\ [][DecodeNext]_vars

-----------------------------------------------------------------------------
(* DecimatedSegmentedReader: files of records, each a 32-byte subheader      *)
(* followed by samplesInRecord 4-byte floats.  In SegInit the environment    *)
(* gives, per file, the sample counts of its records and the number of bytes *)
(* of a cut-off subheader after the last record.                             *)

SubheaderBytes == 32
FloatBytes == 4

\* bytes of a record with n samples
RecordBytes(n) == SubheaderBytes + FloatBytes * n

\* offset in the payload of record j (from 1) of file f
RecordStart(f, j) ==
    SeqSum([i \in 1..(j - 1) |-> RecordBytes(env.records[f.seq][i])])

SegPayloadSize(f) ==
    RecordStart(f, Len(env.records[f.seq]) + 1) + env.tail[f.seq]

SegFileSize(f) == HeaderSize + SegPayloadSize(f)

\* byte o of a subheader with timestamp t and n samples: the two counts, then
\* satCount, missCount, minVal, maxVal, avgVal and padding, all zero
SubheaderByte(t, n, o) ==
    IF o < 4 THEN LEByte(t, o) ELSE IF o < 8 THEN LEByte(n, o - 4) ELSE 0

\* byte o of sample k (from 0) of a record: a float32 between 1.0 and 2.0
SampleByte(k, o) == IF o = 3 THEN 63 ELSE IF o = 2 THEN 128 ELSE IF o = 1 THEN k ELSE 0

\* the record that holds payload offset p of file f, 0 if p is in the tail
RecordAt(f, p) ==
    Local({j \in 1..Len(env.records[f.seq]) : RecordStart(f, j + 1) > p}, LAMBDA later :
        IF later = {} THEN 0 ELSE CHOOSE j \in later : \A i \in later : j <= i)

\* byte at offset off of a segmented file f; record j carries timestamp
\* 16 * f.seq + j, the cut-off subheader announces one sample
SegByte(f, off) ==
    IF off < HeaderSize THEN HeaderByte(f, off)
    ELSE Local(off - HeaderSize, LAMBDA p :
         Local(RecordAt(f, p), LAMBDA j :
             IF j = 0
             THEN SubheaderByte(16 * f.seq + Len(env.records[f.seq]) + 1, 1,
                                p - RecordStart(f, Len(env.records[f.seq]) + 1))
             ELSE Local(p - RecordStart(f, j), LAMBDA o :
                 IF o < SubheaderBytes
                 THEN SubheaderByte(16 * f.seq + j, env.records[f.seq][j], o)
                 ELSE SampleByte((o - SubheaderBytes) \div FloatBytes,
                                 (o - SubheaderBytes) % FloatBytes))))

\* stream.read(n) at position pos of a segmented file
SegStreamRead(f, pos, n) ==
    Bytes(f, pos, Min(n, SegFileSize(f) - Min(pos, SegFileSize(f))))

\* unpack_from("I", bs, i)
SegUnpackI(bs, i) ==
    UnpackI(SegByte(bs.file, bs.off + i), SegByte(bs.file, bs.off + i + 1),
            SegByte(bs.file, bs.off + i + 2), SegByte(bs.file, bs.off + i + 3))

\* self.subheader = {}: a key that is not set holds <<>>
EmptySubheader == [timestamp |-> <<>>, samplesInRecord |-> <<>>]

\* self.unpack_header() of DecimatedSegmentedReader.__init__: the header of
\* the open file is read from its first 128 bytes
seg_unpack_header(x) ==
    IF x.exc # None THEN x
    ELSE [x EXCEPT !.rd.stream.pos = Min(HeaderSize, SegFileSize(x.rd.stream.file))]

\* DecimatedSegmentedReader.__init__
SegConstruct(e) ==
    seg_unpack_header(Strip(open_file(
        Exec([seq |-> <<>>,
              last_seq |-> NameSeq(FileName(e.first)) + e.num_files,
              stream |-> [file |-> e.first, pos |-> 0, closed |-> TRUE],
              orphans |-> {},
              subheader |-> EmptySubheader],
             <<>>, None),
        e.first)))

\* the branch "if not subheaderBytes or len(subheaderBytes) < 32 ... else"
SetSubheader(x, subheaderBytes) ==
    IF subheaderBytes.len < SubheaderBytes
    THEN [x EXCEPT !.rd.subheader = [timestamp |-> <<Word(0, 0)>>,
                                     samplesInRecord |-> <<Word(0, 0)>>]]
    ELSE [x EXCEPT !.rd.subheader = [timestamp |-> <<SegUnpackI(subheaderBytes, 0)>>,
                                     samplesInRecord |-> <<SegUnpackI(subheaderBytes, 4)>>]]

\* self.stream.read(32), logged; the bytes read are the value returned
ReadSubheaderBytes(x) ==
    Local(SegStreamRead(x.rd.stream.file, x.rd.stream.pos, SubheaderBytes), LAMBDA bs :
        Ret(Emit(Advance(x, bs.len),
                 [ev |-> "read", file |-> bs.file, off |-> bs.off, len |-> bs.len]),
            bs))

\* DecimatedSegmentedReader.read_subheader
read_subheader(x) ==
    IF x.rd.stream.closed THEN Ret(Raise(x, "ValueError"), None)
    ELSE Local(ReadSubheaderBytes(x), LAMBDA r1 :
        IF r1.ret.len # 0 THEN Ret(SetSubheader(Strip(r1), r1.ret), None)
        ELSE Local(open_next(Strip(r1)), LAMBDA n :
            IF n.exc # None THEN Ret(Strip(n), None)
            ELSE IF n.ret
                 THEN Local(ReadSubheaderBytes(Strip(n)), LAMBDA r2 :
                          Ret(SetSubheader(Strip(r2), r2.ret), None))
            ELSE Ret(SetSubheader(Strip(n), r1.ret), None)))

\* an array of n float32 read at offset off of file f; np.empty([0]) has n = 0
Floats(f, off, n) == [file |-> f, off |-> off, n |-> n]

\* np.fromfile(self.stream, dtype=np.float32, count=count), count a 32-bit
\* word: the whole floats available, at most count of them; the stream is
\* left where the read stopped
FromFile(x, count) ==
    Local(x.rd.stream, LAMBDA st :
    Local(SegFileSize(st.file) - Min(st.pos, SegFileSize(st.file)), LAMBDA avail :
        IF st.closed THEN Ret(Raise(x, "ValueError"), None)
        ELSE IF count.hi > 0 \/ FloatBytes * count.lo > avail
             THEN Ret(Advance(x, avail), Floats(st.file, st.pos, avail \div FloatBytes))
        ELSE Ret(Advance(x, FloatBytes * count.lo), Floats(st.file, st.pos, count.lo))))

\* DecimatedSegmentedReader.read_record_data
read_record_data(x) ==
    IF x.exc # None THEN Ret(x, None)
    ELSE IF x.rd.subheader.samplesInRecord = <<>> THEN Ret(Raise(x, "KeyError"), None)
    ELSE IF x.rd.subheader.samplesInRecord = <<Word(0, 0)>>
         THEN Ret(x, Floats(x.rd.stream.file, x.rd.stream.pos, 0))
    ELSE Local(FromFile(x, x.rd.subheader.samplesInRecord[1]), LAMBDA a1 :
        IF a1.exc # None THEN a1
        ELSE IF a1.ret.n # 0 THEN a1
        ELSE Local(open_next(Strip(a1)), LAMBDA n :
            IF n.exc # None THEN Ret(Strip(n), None)
            ELSE IF ~n.ret THEN Ret(Strip(n), Floats(n.rd.stream.file, n.rd.stream.pos, 0))
            ELSE FromFile(Strip(n), n.rd.subheader.samplesInRecord[1])))

\* DecimatedSegmentedReader.read_record
read_record(x) == read_record_data(Strip(read_subheader(x)))

\* sample counts of the records of a file: up to MaxRecords records of up to
\* MaxSamples samples
RecordChoices == UNION {[1..k -> 0..MaxSamples] : k \in 0..MaxRecords}

\* bytes of a cut-off subheader at the end of a file
TailChoices == {0, 1, SubheaderBytes - 1}

\* a recording of one or two files in an otherwise empty directory, read as a
\* sequence of one or two files, the second file empty or of one record
SegEnvs ==
    {[dir |-> dir, listing |-> SortByName(dir), first |-> File(1, 1), num_files |-> k,
      records |-> [s \in 1..MaxSeq |-> IF s = 1 THEN r1 ELSE r2],
      tail |-> [s \in 1..MaxSeq |-> IF s = 1 THEN t1 ELSE 0]] :
        dir \in {{File(1, 1)}, {File(1, 1), File(1, 2)}}, k \in 1..MaxNumFiles,
        r1 \in RecordChoices, t1 \in TailChoices, r2 \in {<<>>, <<1>>}}

SegInit ==
    /\ env \in SegEnvs
    /\ \E c \in {SegConstruct(env)} :
         /\ rd = c.rd
         /\ last = [op |-> "init", arg |-> <<>>, pre |-> c.rd, ret |-> None,
                    exc |-> c.exc, log |-> c.log]
    /\ ncalls = 0

ReadSubheader == Do("read_subheader", <<>>, read_subheader(Start))

ReadRecordData == Do("read_record_data", <<>>, read_record_data(Start))

ReadRecord == Do("read_record", <<>>, read_record(Start))

SegNext ==
    \/ ReadSubheader
    \/ ReadRecordData
    \/ ReadRecord
    \/ OpenNext
    \/ OpenFileSeq
    \/ Close

SegmentedSpec == SegInit /\ [][SegNext]_vars

-----------------------------------------------------------------------------
(* DecimatedContinuousReader: files of a header followed by 4-byte floats.   *)
(* In ContInit the environment gives the number of floats of every file.     *)

ContFileSize(f) == HeaderSize + FloatBytes * env.floats[f.seq]

\* Header.unpack_header(stream) on a continuous file: seek(0), read the header
cont_unpack_header(x) ==
    IF x.exc # None THEN x
    ELSE IF x.rd.stream.closed THEN Raise(x, "ValueError")
    ELSE [x EXCEPT !.rd.stream.pos = Min(HeaderSize, ContFileSize(x.rd.stream.file)),
                   !.rd.hdr = x.rd.stream.file]

\* DecimatedContinuousReader.__init__
ContConstruct(e) ==
    cont_unpack_header(Strip(open_file(
        Exec([seq |-> <<>>,
              last_seq |-> NameSeq(FileName(e.first)) + e.num_files,
              stream |-> [file |-> e.first, pos |-> 0, closed |-> TRUE],
              orphans |-> {},
              hdr |-> e.first],
             <<>>, None),
        e.first)))

\* an array as the pieces it was appended from; np.empty([0]) is <<>>
Pieces(a) == IF a.n = 0 THEN <<>> ELSE <<a>>

PiecesSize(ps) == SeqSum([i \in 1..Len(ps) |-> ps[i].n])

\* np.fromfile(self.stream, dtype=np.float32, count=count), count >= 0, or
\* count = -1 for every float up to the end of the file
ContFromFile(x, count) ==
    Local(x.rd.stream, LAMBDA st :
    Local((ContFileSize(st.file) - Min(st.pos, ContFileSize(st.file))) \div FloatBytes,
          LAMBDA avail :
        IF st.closed THEN Ret(Raise(x, "ValueError"), <<>>)
        ELSE Local(IF count < 0 THEN avail ELSE Min(count, avail), LAMBDA got :
            Ret(Emit(Advance(x, FloatBytes * got),
                     [ev |-> "read", file |-> st.file, off |-> st.pos,
                      len |-> FloatBytes * got]),
                Pieces(Floats(st.file, st.pos, got))))))

\* the loop "while ret_array.size < numSamples" of read_data
RECURSIVE read_data_loop(_, _, _)
read_data_loop(x, ret_array, numSamples) ==
    IF PiecesSize(ret_array) >= numSamples THEN Ret(x, ret_array)
    ELSE Local(open_next(x), LAMBDA n :
        IF n.exc # None THEN Ret(Strip(n), None)
        ELSE IF ~n.ret THEN Ret(Strip(n), <<>>)
        ELSE Local(ContFromFile(Strip(n), numSamples - PiecesSize(ret_array)), LAMBDA a :
            IF a.exc # None THEN Ret(Strip(a), None)
            ELSE read_data_loop(Strip(a), ret_array \o a.ret, numSamples)))

\* DecimatedContinuousReader.read_data(numSamples)
read_data(x, numSamples) ==
    Local(ContFromFile(x, numSamples), LAMBDA a :
        IF a.exc # None THEN Ret(Strip(a), None)
        ELSE read_data_loop(Strip(a), a.ret, numSamples))

\* DecimatedContinuousReader.read()
cont_read(x) ==
    IF x.exc # None THEN Ret(x, None)
    ELSE IF x.rd.stream.closed THEN Ret(Raise(x, "ValueError"), None)
    ELSE Local(ContFromFile([x EXCEPT !.rd.stream.pos = HeaderSize], -1), LAMBDA a :
        IF a.exc # None THEN Ret(Strip(a), None) ELSE a)

\* the loop of read_sequence over the files fn of the listing
RECURSIVE cont_read_sequence_loop(_, _, _)
cont_read_sequence_loop(x, files, data) ==
    IF files = <<>> THEN Ret(x, data)
    ELSE Local(cont_read(cont_unpack_header(Strip(open_file(x, Head(files))))), LAMBDA t :
        IF t.exc # None THEN Ret(Strip(t), None)
        ELSE cont_read_sequence_loop(Strip(t), Tail(files), data \o t.ret))

\* DecimatedContinuousReader.read_sequence(start=0, end=None)
cont_read_sequence(x) == cont_read_sequence_loop(x, sequence_list, <<>>)

\* a recording of up to MaxSeq files, the first ones in the directory, read
\* as a sequence of one or more files from its first file
ContEnvs ==
    {[dir |-> {File(1, s) : s \in 1..d}, listing |-> SortByName({File(1, s) : s \in 1..d}),
      first |-> File(1, 1), num_files |-> k,
      floats |-> [s \in 1..MaxSeq |-> IF s = 1 THEN f1 ELSE f2]] :
        d \in 1..MaxSeq, k \in 1..MaxNumFiles, f1 \in 0..MaxFloats, f2 \in 0..MaxFloats}

ContInit ==
    /\ env \in ContEnvs
    /\ \E c \in {ContConstruct(env)} :
         /\ rd = c.rd
         /\ last = [op |-> "init", arg |-> <<>>, pre |-> c.rd, ret |-> None,
                    exc |-> c.exc, log |-> c.log]
    /\ ncalls = 0

\* a call on the continuous reader, up to MaxDataCalls calls on one reader
ContDo(op, arg, r) ==
    /\ ncalls < MaxDataCalls
    /\ ~(last.op = "init" /\ last.exc # None)
    /\ rd' = r.rd
    /\ last' = Call(op, arg, rd, r)
    /\ ncalls' = ncalls + 1
    /\ UNCHANGED env

ReadData == \E n \in 1..MaxN : ContDo("read_data", n, read_data(Start, n))

ContRead == ContDo("read", <<>>, cont_read(Start))

ContReadSequence == ContDo("read_sequence", <<>>, cont_read_sequence(Start))

ContOpenNext == ContDo("open_next", <<>>, open_next(Start))

ContClose == ContDo("close", <<>>, close(Start))

ContNext ==
    \/ ReadData
    \/ ContRead
    \/ ContReadSequence
    \/ ContOpenNext
    \/ ContClose

ContinuousSpec == ContInit /\ [][ContNext]_vars

-----------------------------------------------------------------------------
(* The loops of read_frames, skip_frames and read_data, one iteration at a   *)
(* time.  rd holds the reader (r) and the frame of the call in progress: the *)
(* method (pc, "idle" between calls), its argument, what is left to do, the  *)
(* data gathered, the reader at the call, the events so far and what the     *)
(* open_next of the last iteration returned (more: <<>> if it was not called).*)

\* the state after one iteration: done says that the call ends with it
Iter(x, ret, left, acc, more, done) ==
    [rd |-> x.rd, log |-> x.log, exc |-> x.exc, ret |-> ret, left |-> left,
     acc |-> acc, more |-> more, done |-> done]

\* the end of a read_frames iteration whose frame d was decoded
FrameDecoded(d, left, more) ==
    IF d.exc # None THEN Iter(d, None, left, <<>>, more, TRUE)
    ELSE Iter(d, d.ret, left - 1, d.ret, more, left - 1 = 0)

\* one iteration of "while frames_in_buf < num_frames" of read_frames
read_frames_iteration(x, left, buf) ==
    IF x.rd.stream.closed THEN Iter(Raise(x, "ValueError"), None, left, buf, <<>>, TRUE)
    ELSE Local(StreamRead(x.rd.stream.file, x.rd.stream.pos, FrameBytes),
               LAMBDA dataFrame :
         IF dataFrame.len > 0
         THEN FrameDecoded(DecodeFrame(Advance(x, dataFrame.len), dataFrame, buf),
                           left, <<>>)
         ELSE Local(open_next(x), LAMBDA n :
                  IF n.exc # None THEN Iter(n, None, left, buf, <<>>, TRUE)
                  ELSE IF ~n.ret THEN Iter(n, <<>>, left, buf, <<FALSE>>, TRUE)
                  ELSE Local(StreamRead(n.rd.stream.file, n.rd.stream.pos, FrameBytes),
                             LAMBDA again :
                       IF again.len = 0 THEN Iter(n, <<>>, left, buf, <<TRUE>>, TRUE)
                       ELSE FrameDecoded(
                                DecodeFrame(Advance(Strip(n), again.len), again, buf),
                                left, <<TRUE>>))))

\* skip_frames' iteration going on after open_next returned False
skip_frames_iteration_past_end(x, bytes_to_skip, num_frames) ==
    IF x.rd.stream.closed
    THEN Iter(Raise(x, "ValueError"), None, bytes_to_skip, <<>>, <<>>, TRUE)
    ELSE Local(StreamRead(x.rd.stream.file, x.rd.stream.pos, bytes_to_skip), LAMBDA foo :
         IF foo.len = 0
         THEN Local(open_next(x), LAMBDA more_data :
                  IF more_data.exc # None
                  THEN Iter(more_data, None, bytes_to_skip, <<>>, <<>>, TRUE)
                  ELSE Iter(more_data, None, bytes_to_skip, <<>>, <<more_data.ret>>,
                            FALSE))
         ELSE Local(Emit(Advance(x, foo.len),
                         [ev |-> "skip", file |-> foo.file, off |-> foo.off,
                          len |-> foo.len]), LAMBDA x1 :
              IF bytes_to_skip - foo.len > 0
              THEN Iter(x1, None, bytes_to_skip - foo.len, <<>>, <<>>, FALSE)
              ELSE Iter([x1 EXCEPT !.rd.last_frame = @ + num_frames], TRUE,
                        bytes_to_skip - foo.len, <<>>, <<>>, TRUE)))

\* one iteration of "while bytes_to_skip > 0" of skip_frames, and the
\* statements after the loop when it was the last one
skip_frames_iteration(x, bytes_to_skip, num_frames) ==
    IF x.rd.stream.closed
    THEN Iter(Raise(x, "ValueError"), None, bytes_to_skip, <<>>, <<>>, TRUE)
    ELSE Local(StreamRead(x.rd.stream.file, x.rd.stream.pos, bytes_to_skip), LAMBDA foo :
         IF foo.len = 0
         THEN Local(open_next(x), LAMBDA more_data :
                  IF more_data.exc # None
                  THEN Iter(more_data, None, bytes_to_skip, <<>>, <<>>, TRUE)
                  ELSE IF ~more_data.ret
                       THEN Iter(more_data, FALSE, bytes_to_skip, <<>>, <<FALSE>>, TRUE)
                  ELSE Iter(more_data, None, bytes_to_skip, <<>>, <<TRUE>>, FALSE))
         ELSE Local(Emit(Advance(x, foo.len),
                         [ev |-> "skip", file |-> foo.file, off |-> foo.off,
                          len |-> foo.len]), LAMBDA x1 :
              IF bytes_to_skip - foo.len > 0
              THEN Iter(x1, None, bytes_to_skip - foo.len, <<>>, <<>>, FALSE)
              ELSE Iter([x1 EXCEPT !.rd.last_frame = @ + num_frames], TRUE,
                        bytes_to_skip - foo.len, <<>>, <<>>, TRUE)))

\* one iteration of "while ret_array.size < numSamples" of read_data
read_data_iteration(x, ret_array, numSamples) ==
    Local(open_next(x), LAMBDA n :
        IF n.exc # None THEN Iter(n, None, numSamples, ret_array, <<>>, TRUE)
        ELSE IF ~n.ret THEN Iter(n, <<>>, numSamples, ret_array, <<FALSE>>, TRUE)
        ELSE Local(ContFromFile(Strip(n), numSamples - PiecesSize(ret_array)), LAMBDA a :
            IF a.exc # None THEN Iter(a, None, numSamples, ret_array, <<TRUE>>, TRUE)
            ELSE Iter(a, ret_array \o a.ret, numSamples, ret_array \o a.ret, <<TRUE>>,
                      PiecesSize(ret_array \o a.ret) >= numSamples)))

\* read_data up to its loop: the first np.fromfile
read_data_entry(x, numSamples) ==
    Local(ContFromFile(x, numSamples), LAMBDA a :
        IF a.exc # None THEN Iter(a, None, numSamples, <<>>, <<>>, TRUE)
        ELSE Iter(a, a.ret, numSamples, a.ret, <<>>, PiecesSize(a.ret) >= numSamples))

\* native recordings with empty files and a missing file number
NativeLoopEnvs ==
    {MkEnv(dir, File(1, 1), k, [s \in 1..MaxSeq |-> IF s = 1 THEN f1 ELSE f2], 0,
           FirstCounter - 1, "AD_input_volts", 2) :
        dir \in {{File(1, 1)}, {File(1, 1), File(1, 2)}, {File(1, 1), File(1, 3)}},
        k \in 1..MaxNumFiles, f1 \in 0..MaxLoopFrames, f2 \in 0..MaxLoopFrames}

\* continuous recordings with empty files
ContLoopEnvs ==
    {[dir |-> dir, listing |-> SortByName(dir), first |-> File(1, 1), num_files |-> k,
      floats |-> [s \in 1..MaxSeq |-> IF s = 1 THEN f1 ELSE f2]] :
        dir \in {{File(1, 1)}, {File(1, 1), File(1, 2)}, {File(1, 1), File(1, 3)}},
        k \in 1..MaxNumFiles, f1 \in 0..MaxLoopFrames, f2 \in 0..MaxLoopFrames}

IsNative == "frames" \in DOMAIN env

\* no call in progress on reader r
Idle(r, log) ==
    [r |-> r, pc |-> "idle", arg |-> 0, left |-> 0, acc |-> <<>>, pre |-> r,
     log |-> log, more |-> <<>>]

LoopInit ==
    /\ env \in NativeLoopEnvs \cup ContLoopEnvs
    /\ \E c \in {IF IsNative THEN Construct(env) ELSE ContConstruct(env)} :
         /\ rd = Idle(c.rd, <<>>)
         /\ last = [op |-> "init", arg |-> <<>>, pre |-> c.rd, ret |-> None,
                    exc |-> c.exc, log |-> c.log]
    /\ ncalls = 0

\* the state after iteration it of the call (op, arg) made on reader pre
AfterIteration(op, arg, pre, it) ==
    IF it.done
    THEN /\ rd' = [Idle(it.rd, <<>>) EXCEPT !.more = it.more]
         /\ last' = [op |-> op, arg |-> arg, pre |-> pre, ret |-> it.ret,
                     exc |-> it.exc, log |-> it.log]
    ELSE /\ rd' = [r |-> it.rd, pc |-> op, arg |-> arg, left |-> it.left,
                   acc |-> it.acc, pre |-> pre, log |-> it.log, more |-> it.more]
         /\ UNCHANGED last

\* a method is called on an idle reader
Enter(op, arg, it) ==
    /\ rd.pc = "idle"
    /\ ncalls < MaxLoopCalls
    /\ ~(last.op = "init" /\ last.exc # None)
    /\ ncalls' = ncalls + 1
    /\ AfterIteration(op, arg, rd.r, it)
    /\ UNCHANGED env

\* the next iteration of the loop of the call in progress
Iterate(op, it) ==
    /\ rd.pc = op
    /\ AfterIteration(op, rd.arg, rd.pre, it)
    /\ UNCHANGED <<env, ncalls>>

LoopStart == Exec(rd.r, rd.log, None)

CallReadFrames ==
    /\ IsNative
    /\ \E n \in 1..MaxLoopN :
         Enter("read_frames", n, Iter(LoopStart, None, n, <<>>, <<>>, FALSE))

CallSkipFrames ==
    /\ IsNative
    /\ \E n \in 1..MaxLoopN :
         Enter("skip_frames", n, Iter(LoopStart, None, n * FrameBytes, <<>>, <<>>, FALSE))

CallReadData ==
    /\ ~IsNative
    /\ \E n \in 1..MaxLoopN : Enter("read_data", n, read_data_entry(LoopStart, n))

CallClose ==
    Enter("close", 0, Iter(close(LoopStart), None, 0, <<>>, <<>>, TRUE))

ReadFramesIteration ==
    Iterate("read_frames", read_frames_iteration(LoopStart, rd.left, rd.acc))

SkipFramesIteration ==
    Iterate("skip_frames", skip_frames_iteration(LoopStart, rd.left, rd.arg))

ReadDataIteration ==
    Iterate("read_data", read_data_iteration(LoopStart, rd.acc, rd.arg))

Iterations == ReadFramesIteration \/ SkipFramesIteration \/ ReadDataIteration

LoopNext ==
    \/ CallReadFrames
    \/ CallSkipFrames
    \/ CallReadData
    \/ CallClose
    \/ ReadFramesIteration
    \/ SkipFramesIteration
    \/ ReadDataIteration

\* single-threaded and synchronous: a call in progress keeps running
LoopSpec == LoopInit /\ [][LoopNext]_vars /\ WF_vars(Iterations)

-----------------------------------------------------------------------------
(* Vocabulary of the properties *)

IsFrame(e) == e.ev = "frame"
IsMissing(e) == e.ev = "missing"
IsOpen(e) == e.ev = "open"
IsSkip(e) == e.ev = "skip"

\* the 64 bytes of payload frame j (from 0) of file f
PayloadFrame(f, j) == Bytes(f, HeaderSize + FrameBytes * j, FrameBytes)

\* the scaled samples of payload frames from..(from + count - 1) of file f
RECURSIVE PayloadSamples(_, _, _, _)
PayloadSamples(f, from, count, scale_factor) ==
    IF count <= 0 THEN <<>>
    ELSE FrameSamples(PayloadFrame(f, from), scale_factor)
            \o PayloadSamples(f, from + 1, count - 1, scale_factor)

\* the frame counter the code reads in the 64 bytes at off of file f
CounterAt(f, off) ==
    footer_idx_samp(UnpackI(Byte(f, off + 60), Byte(f, off + 61),
                            Byte(f, off + 62), Byte(f, off + 63)))

\* a call made on the freshly constructed reader
Fresh == ncalls = 1

\* the sequence is the two files numbered 1 and 2 of one recording, alone in
\* their directory, with contiguous counters
TwoFileSequence ==
    /\ env.listing = <<File(1, 1), File(1, 2)>>
    /\ env.first = File(1, 1)
    /\ env.num_files = 2
    /\ env.gap = 0

-----------------------------------------------------------------------------
(* C1: read_frames(n) across the boundary of a two-file sequence (a and b   *)
(* frames, a < n <= a + b, contiguous counters, last_frame one less than    *)
(* the first counter) returns the a payload frames of file 1 followed by    *)
(* the first n - a payload frames of file 2, decodes no header byte of      *)
(* file 2 and reports no missing frame.                                     *)

C1_Crossing ==
    /\ Fresh
    /\ TwoFileSequence
    /\ env.last_frame = FirstCounter - 1
    /\ last.op = "read_frames"
    /\ last.arg > env.frames[1]
    /\ last.arg <= env.frames[1] + env.frames[2]

C1_ReadFramesAcrossBoundary ==
    C1_Crossing =>
        /\ last.exc = None
        /\ last.ret = PayloadSamples(File(1, 1), 0, env.frames[1], rd.scale_factor)
                        \o PayloadSamples(File(1, 2), 0, last.arg - env.frames[1],
                                          rd.scale_factor)
        /\ \A i \in DOMAIN last.log :
              /\ ~IsMissing(last.log[i])
              /\ IsFrame(last.log[i]) => last.log[i].off >= HeaderSize

-----------------------------------------------------------------------------
(* C2: in every execution of open_next and of open_file_seq (called         *)
(* directly or from read_frames / skip_frames) the file the reader holds    *)
(* open is closed before another file is opened: no file is opened while    *)
(* self.stream still holds a different file open, and the file held at the  *)
(* start of the call is closed before the first open.                       *)

SequenceOps == {"open_next", "open_file_seq", "read_frames", "skip_frames"}

C2_CloseBeforeOpen ==
    last.op \in SequenceOps =>
        \A i \in DOMAIN last.log :
            IsOpen(last.log[i]) =>
                /\ last.log[i].held \in {<<>>, <<last.log[i].file>>}
                /\ ~last.pre.stream.closed =>
                      \E j \in 1..(i - 1) :
                          /\ last.log[j].ev = "close"
                          /\ last.log[j].file = last.pre.stream.file

\* open_next closed file 1 and then opened file 2
C2_Witness ==
    /\ last.op = "open_next"
    /\ ~last.pre.stream.closed
    /\ Len(last.log) >= 2
    /\ last.log[1] = [ev |-> "close", file |-> last.pre.stream.file]
    /\ IsOpen(last.log[2])
    /\ last.log[2].file # last.pre.stream.file

-----------------------------------------------------------------------------
(* C3: open_next called while the current file is the last of the sequence  *)
(* (seq + 1 = first sequence number + num_files) returns False and raises   *)
(* nothing, whatever the directory holds.                                   *)

C3_EndOfSequenceIsFalse ==
    (last.op = "open_next" /\ seq(last.pre) + 1 = last.pre.last_seq) =>
        (last.exc = None /\ last.ret = FALSE)

-----------------------------------------------------------------------------
(* C4: the file opened by a successful open_next on the freshly constructed *)
(* reader is the entry of the sorted listing that follows the first file,   *)
(* whatever the first file's sequence number and position in the listing.   *)

C4_NoFileSkipped ==
    (Fresh /\ last.op = "open_next" /\ last.exc = None /\ last.ret) =>
        \E i \in 1..(Len(env.listing) - 1) :
            /\ env.listing[i] = env.first
            /\ rd.stream.file = env.listing[i + 1]
            /\ ~rd.stream.closed

-----------------------------------------------------------------------------
(* C5: open_file_seq(i), when the directory holds the file of the recording *)
(* numbered i, raises nothing and leaves open a file whose name carries     *)
(* the hexadecimal sequence number i.                                       *)

C5_OpenFileSeqOpensNumbered ==
    (/\ last.op = "open_file_seq"
     /\ last.arg # <<>>
     /\ \E f \in env.dir : f.rec = env.first.rec /\ NameSeq(FileName(f)) = last.arg[1]) =>
        /\ last.exc = None
        /\ ~rd.stream.closed
        /\ NameSeq(FileName(rd.stream.file)) = last.arg[1]

-----------------------------------------------------------------------------
(* C6: read_frames(n) returns exactly 20*n samples or an empty array, and   *)
(* the empty array only if no undecoded frame remained in the sequence when *)
(* it was called; frames it consumed are never discarded.                   *)

\* no whole frame is left in the current file and no file of the sequence
\* follows it
NothingLeft(r) ==
    /\ FileSize(r.stream.file) - r.stream.pos < FrameBytes
    /\ seq(r) + 1 >= r.last_seq

C6_ReadFramesAllOrNothing ==
    (last.op = "read_frames" /\ last.exc = None) =>
        /\ Len(last.ret) \in {0, 20 * last.arg}
        /\ last.ret = <<>> =>
              /\ NothingLeft(last.pre)
              /\ \A i \in DOMAIN last.log : ~IsFrame(last.log[i])

-----------------------------------------------------------------------------
(* C7: missing-frame events of read_frames.                                 *)

\* the counters of the frames a call decoded, in order
DecodedCounters(log) ==
    LET fr == SelectSeq(log, IsFrame)
    IN  [i \in 1..Len(fr) |-> CounterAt(fr[i].file, fr[i].off)]

\* the events due for counters cs when the counter seen before them is prev
RECURSIVE MissingDue(_, _)
MissingDue(prev, cs) ==
    IF cs = <<>> THEN <<>>
    ELSE (IF Head(cs) - prev # 1
          THEN <<[ev |-> "missing", at |-> Head(cs), dif |-> Head(cs) - prev]>>
          ELSE <<>>) \o MissingDue(Head(cs), Tail(cs))

\* C7 as claimed: a freshly constructed reader reports exactly one event for
\* each pair of consecutively decoded frames whose counters differ by other
\* than 1, and none otherwise ([100,101,103,104]: one event).
C7_OneEventPerGappedPair ==
    (Fresh /\ last.op = "read_frames") =>
        LET cs == DecodedCounters(last.log)
        IN  Len(SelectSeq(last.log, IsMissing))
                = Cardinality({i \in 2..Len(cs) : cs[i] - cs[i - 1] # 1})

\* C7 as amended: read_frames reports exactly one missing-frame event for
\* each frame it decodes whose counter is not last_frame + 1, where
\* last_frame is the counter of the frame decoded before it and, for the
\* first frame of a call, the reader's last_frame at the call (the
\* constructor argument, 0 by default, on a fresh reader); it reports none
\* otherwise, and when the call returns samples they are those of every
\* frame it decoded, the frames after a gap included.
C7_OneEventPerFrameOffLastFrame ==
    last.op = "read_frames" =>
        /\ SelectSeq(last.log, IsMissing)
              = MissingDue(last.pre.last_frame, DecodedCounters(last.log))
        /\ (last.exc = None /\ last.ret # <<>>) =>
              LET fr == SelectSeq(last.log, IsFrame)
              IN  /\ Len(fr) = last.arg
                  /\ \A i \in 1..Len(fr) :
                        SubSeq(last.ret, 20 * (i - 1) + 1, 20 * i)
                            = FrameSamples(Bytes(fr[i].file, fr[i].off, FrameBytes),
                                           rd.scale_factor)

\* counters [100,101,103,104] decoded by a reader constructed with
\* last_frame = 99: one event (at 103, difference 2), four frames returned
C7_Witness ==
    /\ Fresh
    /\ last.op = "read_frames"
    /\ last.pre.last_frame = FirstCounter - 1
    /\ DecodedCounters(last.log)
          = <<FirstCounter, FirstCounter + 1, FirstCounter + 3, FirstCounter + 4>>
    /\ SelectSeq(last.log, IsMissing)
          = <<[ev |-> "missing", at |-> FirstCounter + 3, dif |-> 2]>>
    /\ Len(last.ret) = 80

-----------------------------------------------------------------------------
(* C8: skip_frames(n) returns True only after exactly n*64 payload bytes    *)
(* were skipped (no header byte of a newly opened file among them) and then *)
(* last_frame has grown by n; when it returns False last_frame is           *)
(* unchanged.                                                               *)

RECURSIVE SkippedBytes(_)
SkippedBytes(log) ==
    IF log = <<>> THEN 0
    ELSE (IF IsSkip(Head(log)) THEN Head(log).len ELSE 0) + SkippedBytes(Tail(log))

C8_SkipFramesPayloadOnly ==
    (last.op = "skip_frames" /\ last.exc = None) =>
        IF last.ret
        THEN /\ SkippedBytes(last.log) = FrameBytes * last.arg
             /\ \A i \in DOMAIN last.log :
                   IsSkip(last.log[i]) => last.log[i].off >= HeaderSize
             /\ rd.last_frame = last.pre.last_frame + last.arg
        ELSE rd.last_frame = last.pre.last_frame

-----------------------------------------------------------------------------
(* C9: on two readers freshly constructed on the same file with the same    *)
(* scaling mode, read_frames(k) equals the first 20*k elements of the       *)
(* samples read() returns, for k up to the number of frames of the file.    *)

C9_ReadFramesAgreesWithRead ==
    (Fresh /\ last.op = "read_frames" /\ last.arg <= env.frames[env.first.seq]) =>
        LET other == read(Exec(last.pre, <<>>, None))
        IN  /\ last.exc = None
            /\ other.exc = None
            /\ Len(last.ret) = 20 * last.arg
            /\ Len(other.ret[1]) >= 20 * last.arg
            /\ \A i \in 1..(20 * last.arg) : last.ret[i] = other.ret[1][i]

-----------------------------------------------------------------------------
(* C10: read_sequence() over a directory of N files of F frames each        *)
(* returns a pair (samples, footers) with N*F*20 samples and N*F footers.   *)

C10_ReadSequenceSizes ==
    (Fresh /\ last.op = "read_sequence"
        /\ \A f \in env.dir : env.frames[f.seq] = env.frames[env.first.seq]) =>
        LET N == Cardinality(env.dir)
            F == env.frames[env.first.seq]
        IN  /\ last.exc = None
            /\ Len(last.ret) = 2
            /\ Len(last.ret[1]) = N * F * 20
            /\ Len(last.ret[2]) = N * F

-----------------------------------------------------------------------------
(* C11: read() returns a sample array and a footer array parallel per       *)
(* frame: for every frame k of the current file's payload, samples          *)
(* 20k..20k+19 are the samples decoded from frame k and footer[k] is the    *)
(* 4-byte word at bytes 60..63 of frame k (frames of a trailing partial     *)
(* chunk included).                                                         *)

\* the footer word of payload frame j of file f
FooterWord(f, j) ==
    UnpackI(At(PayloadFrame(f, j), 60), At(PayloadFrame(f, j), 61),
            At(PayloadFrame(f, j), 62), At(PayloadFrame(f, j), 63))

C11_ReadParallelArrays ==
    (Fresh /\ last.op = "read") =>
        LET f == last.pre.stream.file
            n == env.frames[f.seq]
        IN  /\ last.exc = None
            /\ Len(last.ret[1]) = 20 * n
            /\ Len(last.ret[2]) = n
            /\ \A k \in 0..(n - 1) :
                    /\ SubSeq(last.ret[1], 20 * k + 1, 20 * k + 20)
                            = FrameSamples(PayloadFrame(f, k), Dy(1, 0))
                    /\ last.ret[2][k + 1] = FooterWord(f, k)

-----------------------------------------------------------------------------
(* C12: constructing a NativeReader with a scale_to that is none of the     *)
(* three scaling modes fails before any file is opened or read: the failed  *)
(* construction performs no I/O and leaves no file handle open.             *)

C12_InvalidScalingFailsBeforeIO ==
    (last.op = "init" /\ env.scale_to \notin DataScaling) =>
        /\ last.exc # None
        /\ last.log = <<>>
        /\ rd.stream.closed
        /\ rd.orphans = {}

-----------------------------------------------------------------------------
(* C13: after any sequence of calls on one reader at most one file handle   *)
(* opened by the reader is open and unreleased, and none remains open once  *)
(* open_next has signalled exhaustion or close() has returned.              *)

\* handles the reader opened and has not closed: those it lost track of and
\* the one self.stream holds (a file counts once however often it was opened)
OpenHandles(r) == Cardinality(r.orphans) + (IF r.stream.closed THEN 0 ELSE 1)

C13_FileHandlesReleased ==
    /\ OpenHandles(rd) <= 1
    /\ (last.op = "open_next" /\ last.exc = None /\ last.ret = FALSE) =>
            OpenHandles(rd) = 0
    /\ (last.op = "close" /\ last.exc = None) => OpenHandles(rd) = 0

-----------------------------------------------------------------------------
(* C14: after every open_next that returns True and after every             *)
(* open_file_seq, the header fields the reader exposes (file_sequence, ...) *)
(* are those decoded from the newly opened file, never those of the file    *)
(* open before.                                                             *)

\* file_sequence as unpack_header decodes it from the header of file f
HeaderFileSequence(f) == UnpackI(Byte(f, 25), Byte(f, 26), Byte(f, 27), Byte(f, 28))

\* rec_id as unpack_header decodes it from the header of file f
HeaderRecId(f) == UnpackI(Byte(f, 20), Byte(f, 21), Byte(f, 22), Byte(f, 23))

C14_HeaderFollowsOpenFile ==
    (\/ last.op = "open_next" /\ last.exc = None /\ last.ret = TRUE
     \/ last.op = "open_file_seq" /\ last.exc = None) =>
        /\ HeaderFileSequence(rd.hdr) = HeaderFileSequence(rd.stream.file)
        /\ HeaderRecId(rd.hdr) = HeaderRecId(rd.stream.file)

-----------------------------------------------------------------------------
\* C15: decoding the board serial never fails, whatever the 8 bytes of the
\* field are: the header is produced, and its serial is the hexadecimal value
\* of the trimmed text when that text is made of hexadecimal digits, else 0.
C15_BoardSerialTotal ==
    (last.op = "unpack_header" /\ env.len = HeaderSize
        /\ env.ch_hwv = TemplateHwv /\ env.conf_fp = TemplateFp)
    => /\ last.exc = None
       /\ LET text == PyStrip(env.ch_ser, {0})
          IN  rd.ch_ser = IF text # <<>> /\ \A i \in 1..Len(text) : text[i] \in HexDigits
                          THEN ParseHex(text)
                          ELSE 0

-----------------------------------------------------------------------------
\* the attenuator gain the rule gives for a fingerprint and a hardware text
AttenuatorRule(fp, hwv) ==
    IF BitAnd(fp[5], 1) = 0 \/ BitAnd(fp[2], 8) = 0 THEN Rat(1, 1)
    ELSE IF PySlice(hwv, 0, 5) \in {BCM01, BCM03} \/ PySlice(hwv, 0, 7) = BCM05A
         THEN Rat(1, 10)
         ELSE Rat(523, 5223)

\* C16: decoding a full header completes without error whatever the
\* fingerprint, and the attenuator gain is 1 unless the attenuator bit is set
\* on an electric channel, where it is 1/10 on the boards BCM01, BCM03 and
\* BCM05-A and 523/5223 on every other board.
C16_AttenuatorGainRule ==
    (last.op = "unpack_header" /\ env.len = HeaderSize /\ env.ch_ser = TemplateSer)
    => /\ last.exc = None
       /\ rd.attenuator_gain = AttenuatorRule(env.conf_fp, PyStrip(env.ch_hwv, {32}))

-----------------------------------------------------------------------------
\* C19: decoding a header buffer shorter than 128 bytes always fails and
\* never produces a header.
C19_TruncatedHeaderFails ==
    (last.op = "unpack_header" /\ env.len < HeaderSize) => last.exc # None

-----------------------------------------------------------------------------
\* the 24-bit two's-complement value of three bytes, most significant first
S24(bs) == bs[1] * 65536 + bs[2] * 256 + bs[3] - (IF bs[1] >= 128 THEN 16777216 ELSE 0)

\* C17 (as stated): the unscaled integer of a sample is the 24-bit
\* two's-complement value of its three bytes, i.e. the word b0 b1 b2 00
\* shifted right arithmetically by 8.
C17_SampleIsS24 ==
    last.op = "unpack_sample" => last.ret = S24(env.bytes)

\* C17 (amended): the unscaled integer of a sample is the signed big-endian
\* word b0 b1 b2 00 itself, which is 256 times the 24-bit two's-complement
\* value of the three bytes (no shift is applied), so its sign is the sign of
\* the 24-bit value and its low 8 bits are zero.
C17_SampleIsS24Times256 ==
    last.op = "unpack_sample"
    => /\ last.ret = 256 * S24(env.bytes)
       /\ (last.ret < 0) = (env.bytes[1] >= 128)
       /\ last.ret % 256 = 0

\* a negative sample is decoded: bytes 80 01 FF give 256 * -8388097
C17_Witness ==
    /\ last.op = "unpack_sample"
    /\ env.bytes = <<128, 1, 255>>
    /\ last.ret = -2147352832

-----------------------------------------------------------------------------
\* bits 0..27 and bits 28..30 of the footer stored as the four bytes bs
FooterLow28(bs) == (bs[4] % 16) * 16777216 + bs[3] * 65536 + bs[2] * 256 + bs[1]
FooterBits28to30(bs) == (bs[4] \div 16) % 8

\* C18 (as stated): the frame counter is footer & 0x0FFFFFFF, and the
\* saturation count is a 3-bit value in 0..7 taken from bits that do not
\* overlap the counter.
C18_SaturationIsThreeBitValue ==
    last.op = "unpack_footer"
    => /\ last.ret.frameCount = FooterLow28(env.bytes)
       /\ last.ret.satCount \in 0..7
       /\ last.ret.satCount = FooterBits28to30(env.bytes)

\* C18 (amended): the frame counter is footer & 0x0FFFFFFF, and the
\* saturation count is (footer & 0x70000000) >> 24: 16 times the 3-bit field
\* in bits 28..30, one of 0, 16, .., 112; it is taken from bits that do not
\* overlap the counter, and bit 31 enters neither.
C18_SaturationIsSixteenTimesField ==
    last.op = "unpack_footer"
    => /\ last.ret.frameCount = FooterLow28(env.bytes)
       /\ last.ret.frameCount \in 0..268435455
       /\ last.ret.satCount = 16 * FooterBits28to30(env.bytes)
       /\ last.ret.satCount \in {16 * k : k \in 0..7}

\* a footer with every bit set: counter 0x0FFFFFFF, saturation 112
C18_Witness ==
    /\ last.op = "unpack_footer"
    /\ env.bytes = <<255, 255, 255, 255>>
    /\ last.ret = [frameCount |-> 268435455, satCount |-> 112]

-----------------------------------------------------------------------------
\* bytes left after the position of the stream of reader r
SegRemaining(r) ==
    SegFileSize(r.stream.file) - Min(r.stream.pos, SegFileSize(r.stream.file))

\* the file that follows the open one in the recording
NextOfSequence(r) == File(r.stream.file.rec, r.stream.file.seq + 1)

\* that file exists and is one of the num_files files the reader was built for
AnotherFileRemains(r) ==
    /\ NextOfSequence(r) \in env.dir
    /\ NextOfSequence(r).seq < env.first.seq + env.num_files

\* C20: whenever read_subheader finds fewer than 32 bytes (0 to 31) left in
\* the current file and another file of the sequence remains, it opens that
\* file and reads the subheader from it before it declares end-of-data.
C20_SubheaderContinuation ==
    (/\ last.op = "read_subheader"
     /\ ~last.pre.stream.closed
     /\ SegRemaining(last.pre) < SubheaderBytes
     /\ AnotherFileRemains(last.pre))
    => \E i \in 1..Len(last.log) :
          /\ last.log[i].ev = "open"
          /\ last.log[i].file = NextOfSequence(last.pre)
          /\ \E j \in (i + 1)..Len(last.log) :
                /\ last.log[j].ev = "read"
                /\ last.log[j].file = NextOfSequence(last.pre)

-----------------------------------------------------------------------------
\* every stream.read(32) of the last call returned fewer than 32 bytes
NoFullSubheaderRead ==
    \A i \in 1..Len(last.log) :
        last.log[i].ev = "read" => last.log[i].len < SubheaderBytes

\* C21: when fewer than 32 subheader bytes can be obtained, read_record
\* raises no error, sets samplesInRecord to 0 and returns an empty array; and
\* whenever samplesInRecord is 0, read_record_data returns an empty array
\* without reading: the stream and the sequence index are left unchanged.
C21_SegmentedEndOfData ==
    /\ (last.op = "read_record" /\ ~last.pre.stream.closed /\ NoFullSubheaderRead)
       => /\ last.exc = None
          /\ rd.subheader.samplesInRecord = <<Word(0, 0)>>
          /\ last.ret.n = 0
    /\ (last.op = "read_record_data"
           /\ last.pre.subheader.samplesInRecord = <<Word(0, 0)>>)
       => /\ last.exc = None
          /\ last.ret.n = 0
          /\ rd.stream = last.pre.stream
          /\ rd.seq = last.pre.seq

-----------------------------------------------------------------------------
\* the floats of an array, each named by its file and byte offset
RECURSIVE FlattenPieces(_)
FlattenPieces(ps) ==
    IF ps = <<>> THEN <<>>
    ELSE [i \in 1..ps[1].n |-> <<ps[1].file, ps[1].off + FloatBytes * (i - 1)>>]
            \o FlattenPieces(Tail(ps))

\* the payload floats of file f from byte offset pos on
PayloadFrom(f, pos) ==
    [i \in 1..((ContFileSize(f) - pos) \div FloatBytes) |->
        <<f, pos + FloatBytes * (i - 1)>>]

\* the payload floats of the sequence files numbered s .. last of the sequence
RECURSIVE PayloadOfFiles(_)
PayloadOfFiles(s) ==
    IF s >= env.first.seq + env.num_files \/ File(env.first.rec, s) \notin env.dir
    THEN <<>>
    ELSE PayloadFrom(File(env.first.rec, s), HeaderSize) \o PayloadOfFiles(s + 1)

\* what is left of the payload stream when the stream of reader r stands in
\* the payload of a sequence file
PayloadLeft(r) ==
    PayloadFrom(r.stream.file, r.stream.pos) \o PayloadOfFiles(r.stream.file.seq + 1)

InPayload(r) ==
    /\ ~r.stream.closed
    /\ r.stream.file.rec = env.first.rec
    /\ r.stream.file.seq < env.first.seq + env.num_files
    /\ r.stream.pos >= HeaderSize
    /\ r.stream.pos <= ContFileSize(r.stream.file)

\* C22: read_data(n) returns exactly the next n floats of the payload stream
\* made of the payloads of the sequence files in order (header bytes are
\* never decoded as samples), or an empty array, and the empty array only
\* when fewer than n floats are left in the sequence.
C22_ReadDataIsPayloadStream ==
    (last.op = "read_data" /\ InPayload(last.pre))
    => /\ last.exc = None
       /\ IF Len(PayloadLeft(last.pre)) >= last.arg
          THEN FlattenPieces(last.ret) = SubSeq(PayloadLeft(last.pre), 1, last.arg)
          ELSE last.ret = <<>>

-----------------------------------------------------------------------------
\* the big-endian value of the 16-bit and 32-bit fields at offset off
BigEndianH(header, off) == 256 * header[off + 1] + header[off + 2]
BigEndianI(header, off) ==
    Word(256 * header[off + 1] + header[off + 2], 256 * header[off + 3] + header[off + 4])

\* C23: the multi-byte integer fields of the header (file_sequence at offset
\* 25, frame_size at 63, saturated_frames at 101, missing_frames at 103) and
\* the 4-byte footer of a frame are decoded big-endian: the first byte is the
\* most significant one, whatever the host.
C23_BigEndianFields ==
    /\ (last.op = "unpack_header" /\ last.exc = None)
       => /\ rd.file_sequence = BigEndianI(HeaderBuffer(env), 25)
          /\ rd.frame_size = BigEndianI(HeaderBuffer(env), 63)
          /\ rd.saturated_frames = unpack_saturated(BigEndianH(HeaderBuffer(env), 101))
          /\ rd.missing_frames = BigEndianH(HeaderBuffer(env), 103)
    /\ last.op = "unpack_footer"
       => last.ret.frameCount =
             (env.bytes[1] % 16) * 16777216 + env.bytes[2] * 65536
                 + env.bytes[3] * 256 + env.bytes[4]

-----------------------------------------------------------------------------
\* C24 (as stated): unpacking saturated_frames is idempotent: unpacking the
\* unpacked value of any 16-bit word gives that value again.
C24_SaturatedIdempotent ==
    last.op = "unpack_saturated" => unpack_saturated(last.ret) = last.ret

\* C24 (amended): unpacking the unpacked value gives that value again exactly
\* for the words that do not have both bits 0x80 and 0x08 set; for a word
\* with both bits set the unpacked value has bit 0x80 set again and a second
\* unpacking changes it (0x8A gives 160, and 160 gives 512).
C24_SaturatedIdempotentUnlessBit3 ==
    last.op = "unpack_saturated"
    => /\ (unpack_saturated(last.ret) = last.ret)
             <=> ~(BitAnd(env.raw, 128) = 128 /\ BitAnd(env.raw, 8) = 8)
       /\ (env.raw = 138 => last.ret = 160 /\ unpack_saturated(last.ret) = 512)
       /\ (env.raw = 5 => last.ret = 5)

\* the word 0x8A of the example is unpacked to 160
C24_Witness ==
    /\ last.op = "unpack_saturated"
    /\ env.raw = 138
    /\ last.ret = 160

-----------------------------------------------------------------------------
\* C26 (as stated): for every 16-bit word of the packed field the decoded
\* saturated_frames is a 12-bit count.
C26_SaturatedIsTwelveBits ==
    last.op = "unpack_saturated" => last.ret \in 0..4095

\* C26 (amended): a word with bit 0x80 set is decoded to (word & 0x7F) << 4, a
\* multiple of 16 between 0 and 2032; a word with bit 0x80 clear is decoded
\* to itself, which can be any 16-bit value with that bit clear, up to 65407.
C26_SaturatedRange ==
    last.op = "unpack_saturated"
    => IF (env.raw \div 128) % 2 = 1
       THEN last.ret = 16 * (env.raw % 128) /\ last.ret \in 0..2032
       ELSE last.ret = env.raw /\ last.ret \in 0..65407

\* the value of the repository's sample header, 15383, is decoded to itself
C26_Witness ==
    /\ last.op = "unpack_saturated"
    /\ env.raw = 15383
    /\ last.ret = 15383

-----------------------------------------------------------------------------
\* C25: after any calls on a reader built for k files from the file numbered
\* f, last_seq is f + k and the sequence index stays within f .. last_seq;
\* calls made after the sequence is exhausted do not advance it further.
C25_SequenceIndexInRange ==
    /\ rd.last_seq = env.first.seq + env.num_files
    /\ seq(rd) >= env.first.seq
    /\ seq(rd) <= rd.last_seq

-----------------------------------------------------------------------------
\* the preamp gain the rule gives for a fingerprint and a hardware text; the
\* revision letter is the character after "BCMnn-"
PreampRule(fp, hwv) ==
    IF BitAnd(fp[2], 8) = 0 \/ BitAnd(fp[1], 16) = 0 THEN Rat(1, 1)
    ELSE IF PySlice(hwv, 0, 5) \in {BCM01, BCM03}
         THEN (IF PySlice(hwv, 6, 7) = <<76>> THEN Rat(8, 1) ELSE Rat(4, 1))
         ELSE (IF PySlice(hwv, 0, 7) = BCM05A THEN Rat(4, 1) ELSE Rat(8, 1))

\* C27: preamp_gain is 1 unless the channel is electric and bit 0x10 of
\* fingerprint byte 0 is set; then on the boards BCM01 and BCM03 it is 8 for
\* revision letter L and 4 otherwise, and on other boards it is 4 for a
\* hardware version that starts with BCM05-A and 8 otherwise.
C27_PreampGainRule ==
    (last.op = "unpack_header" /\ last.exc = None)
    => rd.preamp_gain = PreampRule(env.conf_fp, PyStrip(env.ch_hwv, {32}))

-----------------------------------------------------------------------------
\* C28: after a successful header decode lpf_Hz is one of the cutoffs 10,
\* 100, 1000, 10000, 17800, for every fingerprint byte 0 and board model,
\* also when the filter is enabled (0x80) with selector bits 0.
C28_LowPassAlwaysDefined ==
    (last.op = "unpack_header" /\ last.exc = None)
    => rd.lpf_Hz \in {<<10>>, <<100>>, <<1000>>, <<10000>>, <<17800>>}

-----------------------------------------------------------------------------
\* file f is one of the num_files files of the sequence the reader was built for
InSequence(f) ==
    /\ f.rec = env.first.rec
    /\ f.seq >= env.first.seq
    /\ f.seq < env.first.seq + env.num_files

\* C29: no call, also when made after an earlier call signalled exhaustion,
\* consumes or returns bytes of a file that lies after the last file of the
\* sequence, even when the directory holds further files.
C29_NoDataBeyondSequence ==
    last.op = "read_data"
    => /\ \A i \in 1..Len(last.log) :
             (last.log[i].ev = "read" /\ last.log[i].len > 0)
                 => InSequence(last.log[i].file)
       /\ last.exc = None => \A i \in 1..Len(last.ret) : InSequence(last.ret[i].file)

\* a call is in progress
Running == rd.pc # "idle"

\* the sequence index of reader r: self.seq, the number in the name of the
\* first file until it is assigned
SeqIndex(r) == IF r.seq = <<>> THEN env.first.seq ELSE r.seq[1]

\* the step read bytes of the open file or moved to a later sequence number
Progress ==
    \/ SeqIndex(rd'.r) > SeqIndex(rd.r)
    \/ /\ ~rd.r.stream.closed
       /\ ~rd'.r.stream.closed
       /\ rd'.r.stream.file = rd.r.stream.file
       /\ rd'.r.stream.pos > rd.r.stream.pos

\* the step found the stream closed and raised
RaisedOnClosedStream ==
    /\ rd.r.stream.closed
    /\ ~Running'
    /\ last'.exc = "ValueError"

\* the step is a loop iteration: it starts with a call in progress
Iteration == Running /\ rd' # rd

\* more than the size of any file
LoopFileBound == HeaderSize + FrameBytes * MaxLoopFrames + 1

LoopFileSize(f) == IF IsNative THEN FileSize(f) ELSE ContFileSize(f)

\* what a loop can still do: the files that open_next can still open, and
\* the bytes left in the open file
Variant ==
    (IF SeqIndex(rd.r) < rd.r.last_seq THEN rd.r.last_seq - SeqIndex(rd.r) ELSE 0)
        * LoopFileBound
    + (IF rd.r.stream.closed THEN 0
       ELSE LoopFileSize(rd.r.stream.file) - rd.r.stream.pos)

\* an iteration after which the loop goes on leaves strictly less to do, and
\* what is left to do is never negative: the loop ends after finitely many
\* iterations
LoopEnds ==
    /\ Running => Variant >= 0
    /\ Running /\ Running' => Variant' < Variant

\* no iteration goes on once open_next has returned False
StopsAtEndOfSequence == rd'.more = <<FALSE>> => ~Running'

\* C30: every call to read_frames(n), skip_frames(n) and read_data(n)
\* returns or raises after finitely many loop iterations; each loop iteration
\* consumes at least one byte or strictly increases the sequence index; and no
\* iteration goes on once open_next has returned False.
C30_LoopsTerminate ==
    [][Iteration => LoopEnds /\ Progress /\ StopsAtEndOfSequence]_vars

\* C30, amended: the iteration that finds the stream closed raises ValueError
\* without reading a byte or changing the sequence index; every other
\* iteration consumes at least one byte or strictly increases the sequence
\* index.
C30_LoopsTerminateOrRaise ==
    [][Iteration =>
          /\ LoopEnds
          /\ Progress \/ RaisedOnClosedStream
          /\ StopsAtEndOfSequence]_vars

\* a call has returned after its loop ran into the end of the sequence
C30_Witness ==
    /\ ~Running
    /\ last.op \in {"read_frames", "skip_frames", "read_data"}
    /\ rd.more = <<FALSE>>
    /\ last.exc = None

=============================================================================
